---- MODULE Spec2Model ----
(***************************************************************************)
(* Record tracking and synchronisation engine of the Lark calendar         *)
(* scheduler: the SQLite record store (record_tracker.py), the upload      *)
(* transport (direct_calendar_uploader.py) and the sync cycle              *)
(* (scheduler.py).                                                         *)
(***************************************************************************)
EXTENDS Integers, Sequences, FiniteSets, TLC

VARIABLES
    calendar_records,  \* table calendar_records: rows in rowid (insertion) order
    now,               \* wall clock read by CURRENT_TIMESTAMP
    utc_offset,        \* seconds east of UTC of the machine's local time zone
    batch_size,        \* SCHEDULE_CONFIG["batch_size"] of this installation
    pc,                \* per process: where it is in execute_main_task / add_or_update_record
    pending_records,   \* per process: rows returned by get_pending_records for this cycle
    chunk_start,       \* per process: loop variable i of the chunk loop
    event_ids,         \* per process: event_ids of the chunk in flight
    mark_index,        \* per process: how many of event_ids are already marked
    result,            \* per process: what batch_upload_records returned for the chunk
    counts,            \* per process: uploaded_count and failed_count of the cycle
    sent,              \* per process: the payloads handed to the transport in this cycle
    outcomes,          \* per process: per chunk of this cycle, what the transport met
    cur,               \* per process: the variables of the call, loop or object a specification follows
    lastIngest,        \* history: per event_id the event data last given to add_or_update_record
    trail,             \* history: per event_id what last decided its upload status
    upload_logs,       \* table upload_logs: rows in insertion order
    answer,            \* what the last query of the store returned to its caller
    pid_file,          \* PATHS["pid_file"]: the pid it holds, NULL when there is no file
    proc               \* per process: how it was started and whether it still runs

vars == <<calendar_records, now, utc_offset, batch_size, pc, pending_records,
          chunk_start, event_ids, mark_index, result, counts, sent, outcomes,
          cur, lastIngest, trail, upload_logs, answer, pid_file, proc>>

---------------------------------------------------------------------------
(* Bounds of the model *)

NumEvents == 2   \* distinct event_id values the source can deliver
MaxTime == 1     \* the clock runs over 0..MaxTime
MaxBatch == 2    \* configured batch sizes 1..MaxBatch
MaxRecords == 4  \* rows of a store that a cycle starts from (SpecBatch)

---------------------------------------------------------------------------
(* Values *)

\* SQL NULL / Python None: a nullable value is NULL or Some(v)
NULL == {}
Some(v) == {v}
Val(x) == CHOOSE v \in x : TRUE

\* dict.get(key, default)
Get(d, key, default) == IF key \in DOMAIN d THEN d[key] ELSE default

EmptyDict == <<>>

Min(S) == CHOOSE m \in S : \A n \in S : m <= n

Procs == {1, 2}
EventIds == 1..NumEvents
Persons == {"alice", "bob"}
BatchSizes == 1..MaxBatch

\* glob(PATHS["personal_calendars"]/*.txt) and the person a file belongs to
CalendarFiles == {<<"data/personal_calendars", n, ".txt">> : n \in Persons}
PersonName(file_path) == file_path[2]

\* The calendar files of an installation that follows one calendar
OneCalendar == {f \in CalendarFiles : PersonName(f) = "alice"}

\* Raw events the source can deliver (items of a calendar file). A raw time is
\* {"timestamp": "<seconds>"}, {"date": "<day>"} or neither; a timestamp string is
\* written as the integer it holds, a date as its day number since 1970-01-01.
EventContents ==
    {[summary |-> "A", start_time |-> [timestamp |-> 1], end_time |-> [timestamp |-> 2],
      status |-> "confirmed"],
     [summary |-> "B", start_time |-> [timestamp |-> 1], end_time |-> [timestamp |-> 2],
      status |-> "confirmed"],
     [summary |-> "A", start_time |-> [timestamp |-> 1], end_time |-> [timestamp |-> 2],
      status |-> "cancelled"]}

WithId(c, id) == [k \in DOMAIN c \cup {"event_id"} |-> IF k = "event_id" THEN id ELSE c[k]]

Events == {WithId(c, id) : c \in EventContents, id \in EventIds} \cup EventContents

NoEvent == EmptyDict

---------------------------------------------------------------------------
(* record_tracker.py: pure helpers *)

\* event_data.get("event_id") is falsy when the key is missing
HasEventId(event_data) == "event_id" \in DOMAIN event_data

\* RecordTracker._extract_timestamp
ExtractTimestamp(time_data) ==
    IF "timestamp" \in DOMAIN time_data
    THEN Some(time_data["timestamp"] * 1000)
    ELSE IF "date" \in DOMAIN time_data
         THEN Some((time_data["date"] * 86400 - utc_offset) * 1000)
         ELSE NULL

\* Faulty variant: the fingerprint is taken of the whole event
GenerateRecordHash_WholeEvent(event_data) == event_data

\* RecordTracker._generate_record_hash: the digest of the canonical (sorted keys)
\* serialisation of the five key fields, written as that serialisation
GenerateRecordHash(event_data) ==
    <<Get(event_data, "description", ""),
      Get(event_data, "end_time", EmptyDict),
      Get(event_data, "start_time", EmptyDict),
      Get(event_data, "status", ""),
      Get(event_data, "summary", "")>>

---------------------------------------------------------------------------
(* record_tracker.py: SQL statements on calendar_records *)

Matching(rows, event_id) == {i \in 1..Len(rows) : rows[i].event_id = event_id}

\* SELECT id, record_hash, upload_status ... WHERE event_id = ?; fetchone()
SelectExisting(rows, event_id) ==
    IF Matching(rows, event_id) = {}
    THEN NULL
    ELSE LET r == rows[Min(Matching(rows, event_id))]
         IN Some([record_hash |-> r.record_hash, upload_status |-> r.upload_status])

\* Faulty variant: the table has no UNIQUE constraint on event_id
UniqueViolation_None(rows, event_id) == FALSE

\* event_id TEXT UNIQUE NOT NULL: an INSERT of an event_id already in the table
\* raises sqlite3.IntegrityError
UniqueViolation(rows, event_id) == Matching(rows, event_id) # {}

\* Faulty variant: the UPDATE of a changed record also sets person_name, to the
\* person of the calendar file
UpdateContent_SetPerson(rows, event_data, calendar_file, t) ==
    [i \in 1..Len(rows) |->
        IF rows[i].event_id = event_data.event_id
        THEN [rows[i] EXCEPT
                !.summary = Some(Get(event_data, "summary", "")),
                !.start_time = ExtractTimestamp(Get(event_data, "start_time", EmptyDict)),
                !.end_time = ExtractTimestamp(Get(event_data, "end_time", EmptyDict)),
                !.calendar_file = calendar_file,
                !.person_name = calendar_file[2],
                !.record_hash = GenerateRecordHash(event_data),
                !.upload_status = "pending",
                !.upload_time = NULL,
                !.upload_result = NULL,
                !.updated_time = t]
        ELSE rows[i]]

\* Faulty variant: the UPDATE of a changed record leaves its upload status as it is
UpdateContent_KeepStatus(rows, event_data, calendar_file, t) ==
    [i \in 1..Len(rows) |->
        IF rows[i].event_id = event_data.event_id
        THEN [rows[i] EXCEPT
                !.summary = Some(Get(event_data, "summary", "")),
                !.start_time = ExtractTimestamp(Get(event_data, "start_time", EmptyDict)),
                !.end_time = ExtractTimestamp(Get(event_data, "end_time", EmptyDict)),
                !.calendar_file = calendar_file,
                !.record_hash = GenerateRecordHash(event_data),
                !.updated_time = t]
        ELSE rows[i]]

\* UPDATE ... SET summary, start_time, end_time, calendar_file, record_hash,
\* upload_status = 'pending', upload_time = NULL, upload_result = NULL,
\* updated_time = CURRENT_TIMESTAMP WHERE event_id = ?
UpdateContent(rows, event_data, calendar_file, t) ==
    [i \in 1..Len(rows) |->
        IF rows[i].event_id = event_data.event_id
        THEN [rows[i] EXCEPT
                !.summary = Some(Get(event_data, "summary", "")),
                !.start_time = ExtractTimestamp(Get(event_data, "start_time", EmptyDict)),
                !.end_time = ExtractTimestamp(Get(event_data, "end_time", EmptyDict)),
                !.calendar_file = calendar_file,
                !.record_hash = GenerateRecordHash(event_data),
                !.upload_status = "pending",
                !.upload_time = NULL,
                !.upload_result = NULL,
                !.updated_time = t]
        ELSE rows[i]]

\* INSERT INTO calendar_records (...) VALUES (..., 'pending'), the other columns
\* taking their defaults
NewRow(event_data, person_name, calendar_file, t) ==
    [event_id |-> event_data.event_id,
     person_name |-> person_name,
     summary |-> Some(Get(event_data, "summary", "")),
     start_time |-> ExtractTimestamp(Get(event_data, "start_time", EmptyDict)),
     end_time |-> ExtractTimestamp(Get(event_data, "end_time", EmptyDict)),
     calendar_file |-> calendar_file,
     record_hash |-> GenerateRecordHash(event_data),
     upload_status |-> "pending",
     upload_time |-> NULL,
     upload_result |-> NULL,
     created_time |-> t,
     updated_time |-> t]

\* Faulty variant: an existing record is rewritten without comparing the fingerprints
AddWrite_AlwaysUpdate(rows, existing_record, event_data, person_name, calendar_file, t) ==
    IF existing_record # NULL
    THEN [rows |-> UpdateContent(rows, event_data, calendar_file, t), ret |-> TRUE]
    ELSE IF UniqueViolation(rows, event_data.event_id)
         THEN [rows |-> rows, ret |-> FALSE]
         ELSE [rows |-> Append(rows, NewRow(event_data, person_name, calendar_file, t)),
               ret |-> TRUE]

\* Faulty variant: an unchanged record still gets a new updated_time
AddWrite_TouchUnchanged(rows, existing_record, event_data, person_name, calendar_file, t) ==
    IF existing_record # NULL
    THEN IF Val(existing_record).record_hash # GenerateRecordHash(event_data)
         THEN [rows |-> UpdateContent(rows, event_data, calendar_file, t), ret |-> TRUE]
         ELSE [rows |-> [i \in 1..Len(rows) |->
                           IF rows[i].event_id = event_data.event_id
                           THEN [rows[i] EXCEPT !.updated_time = t]
                           ELSE rows[i]],
               ret |-> FALSE]
    ELSE IF UniqueViolation(rows, event_data.event_id)
         THEN [rows |-> rows, ret |-> FALSE]
         ELSE [rows |-> Append(rows, NewRow(event_data, person_name, calendar_file, t)),
               ret |-> TRUE]

\* RecordTracker.add_or_update_record from the fetched existing_record on:
\* the rows after the call and the value it returns
AddWrite(rows, existing_record, event_data, person_name, calendar_file, t) ==
    IF existing_record # NULL
    THEN IF Val(existing_record).record_hash # GenerateRecordHash(event_data)
         THEN [rows |-> UpdateContent(rows, event_data, calendar_file, t), ret |-> TRUE]
         ELSE [rows |-> rows, ret |-> FALSE]
    ELSE IF UniqueViolation(rows, event_data.event_id)
         THEN [rows |-> rows, ret |-> FALSE]
         ELSE [rows |-> Append(rows, NewRow(event_data, person_name, calendar_file, t)),
               ret |-> TRUE]

\* RecordTracker.add_or_update_record, run without interruption
AddOrUpdateRecord(rows, event_data, person_name, calendar_file, t) ==
    IF ~HasEventId(event_data)
    THEN [rows |-> rows, ret |-> FALSE]
    ELSE AddWrite(rows, SelectExisting(rows, event_data.event_id),
                  event_data, person_name, calendar_file, t)

\* Texts are written as the sequence of the fragments they are concatenated from
Text(s) == <<s>>

Truthy(x) == x # NULL /\ x # Some(0)

\* `if person_name:` holds for a name that is neither None nor the empty string
Named(person_name) == person_name # NULL /\ person_name # Some("")

\* Faulty variant: the query leaves out only the failed rows
PendingIndexes_NotFailed(rows, person_name) ==
    {i \in 1..Len(rows) :
        /\ rows[i].upload_status # "failed"
        /\ (Named(person_name) => rows[i].person_name = Val(person_name))}

\* The rows a get_pending_records query matches
PendingIndexes(rows, person_name) ==
    {i \in 1..Len(rows) :
        /\ rows[i].upload_status = "pending"
        /\ (Named(person_name) => rows[i].person_name = Val(person_name))}

\* RecordTracker.get_pending_records: the results the query may return. ORDER BY
\* created_time ASC leaves the order of rows with equal created_time open.
GetPendingRecords(rows, person_name, limit) ==
    LET S == PendingIndexes(rows, person_name)
        n == Cardinality(S)
        m == IF Truthy(limit) /\ Val(limit) < n THEN Val(limit) ELSE n
        orders == {f \in [1..n -> S] :
                     /\ \A a, b \in 1..n : a # b => f[a] # f[b]
                     /\ \A a, b \in 1..n :
                          a < b => rows[f[a]].created_time <= rows[f[b]].created_time}
    IN {[k \in 1..m |-> rows[f[k]]] : f \in orders}

\* SUM(CASE WHEN upload_status = ? THEN 1 ELSE 0 END) over a group of rows: NULL
\* over no rows
SumCase(rows, group, status) ==
    IF group = {} THEN NULL
    ELSE Some(Cardinality({i \in group : rows[i].upload_status = status}))

\* The first SELECT of get_upload_statistics: one row of aggregates over the table
TotalStats(rows) ==
    [total_records |-> Len(rows),
     pending_count |-> SumCase(rows, DOMAIN rows, "pending"),
     uploaded_count |-> SumCase(rows, DOMAIN rows, "uploaded"),
     failed_count |-> SumCase(rows, DOMAIN rows, "failed")]

\* One row of the second SELECT: the aggregates of the rows of one person
PersonStat(rows, name) ==
    LET group == {i \in DOMAIN rows : rows[i].person_name = name}
    IN [person_name |-> name,
        total |-> Cardinality(group),
        pending |-> SumCase(rows, group, "pending"),
        uploaded |-> SumCase(rows, group, "uploaded"),
        failed |-> SumCase(rows, group, "failed")]

\* The second SELECT: GROUP BY person_name ORDER BY total DESC, the order of
\* persons with equal totals being open
PersonStats(rows) ==
    LET names == {rows[i].person_name : i \in DOMAIN rows}
        n == Cardinality(names)
        orders == {f \in [1..n -> names] :
                     /\ \A a, b \in 1..n : a # b => f[a] # f[b]
                     /\ \A a, b \in 1..n :
                          a < b => PersonStat(rows, f[a]).total >= PersonStat(rows, f[b]).total}
    IN {[k \in 1..n |-> PersonStat(rows, f[k])] : f \in orders}

\* RecordTracker.get_upload_statistics: the results the call may return
GetUploadStatistics(rows, t) ==
    {[total_stats |-> TotalStats(rows), person_stats |-> ps, generated_at |-> t] :
        ps \in PersonStats(rows)}

\* INSERT INTO upload_logs (batch_id, event_id, upload_status, upload_result,
\* error_message) VALUES (...), upload_time taking its default
LogRow(batch_id, entry, t) ==
    [batch_id |-> batch_id,
     event_id |-> entry.event_id,
     upload_status |-> entry.status,
     upload_result |-> Get(entry, "result", NULL),
     upload_time |-> t,
     error_message |-> Get(entry, "error", NULL)]

\* event_id and upload_status are NOT NULL: the INSERT of a result without one of
\* them raises sqlite3.IntegrityError
InsertRaises(entry) == "event_id" \notin DOMAIN entry \/ "status" \notin DOMAIN entry

\* The INSERTs of a batch that raise: those of a result that breaks a constraint
\* and the one a store error hits (fault = k for the k-th INSERT,
\* Len(upload_results) + 1 for the commit, 0 for no store error)
FailingInserts(upload_results, fault) ==
    {k \in 1..Len(upload_results) : InsertRaises(upload_results[k]) \/ k = fault}

\* Faulty variant: every INSERT is committed on its own, so the entries written
\* before the failure stay
LogUploadBatch_Autocommit(logs, batch_id, upload_results, fault, t) ==
    LET failing == FailingInserts(upload_results, fault)
        n == Len(upload_results)
        written == IF failing = {} THEN n ELSE Min(failing) - 1
    IN [logs |-> logs \o [k \in 1..written |-> LogRow(batch_id, upload_results[k], t)],
        ret |-> failing = {} /\ fault # n + 1]

\* RecordTracker.log_upload_batch: the INSERTs and the commit are one transaction;
\* when a statement raises the connection is closed without a commit and the
\* handler returns False
LogUploadBatch(logs, batch_id, upload_results, fault, t) ==
    IF FailingInserts(upload_results, fault) # {} \/ fault = Len(upload_results) + 1
    THEN [logs |-> logs, ret |-> FALSE]
    ELSE [logs |-> logs \o [k \in 1..Len(upload_results) |->
                               LogRow(batch_id, upload_results[k], t)],
          ret |-> TRUE]

\* The UPDATE of mark_as_uploaded and mark_as_failed
SetStatus(rows, event_id, status, upload_result, t) ==
    [i \in 1..Len(rows) |->
        IF rows[i].event_id = event_id
        THEN [rows[i] EXCEPT !.upload_status = status,
                             !.upload_time = Some(t),
                             !.upload_result = Some(upload_result),
                             !.updated_time = t]
        ELSE rows[i]]

\* RecordTracker.mark_as_uploaded
MarkAsUploaded(rows, event_id, upload_result, t) ==
    [rows |-> SetStatus(rows, event_id, "uploaded", upload_result, t),
     ret |-> Matching(rows, event_id) # {}]

\* Faulty variant: mark_as_failed also fails every row that is still pending
MarkAsFailed_AllPending(rows, event_id, error_message, t) ==
    [rows |-> [i \in 1..Len(rows) |->
                 IF rows[i].event_id = event_id \/ rows[i].upload_status = "pending"
                 THEN [rows[i] EXCEPT !.upload_status = "failed",
                                      !.upload_time = Some(t),
                                      !.upload_result = Some(<<"FAILED: ">> \o error_message),
                                      !.updated_time = t]
                 ELSE rows[i]],
     ret |-> Matching(rows, event_id) # {}]

\* RecordTracker.mark_as_failed
MarkAsFailed(rows, event_id, error_message, t) ==
    [rows |-> SetStatus(rows, event_id, "failed", <<"FAILED: ">> \o error_message, t),
     ret |-> Matching(rows, event_id) # {}]

\* Faulty variant: the resets put the status back and leave upload_time and
\* upload_result as they are
ResetRows_KeepTime(rows, statuses, t) ==
    [i \in 1..Len(rows) |->
        IF rows[i].upload_status \in statuses
        THEN [rows[i] EXCEPT !.upload_status = "pending", !.updated_time = t]
        ELSE rows[i]]

\* The UPDATE of the two resets: the rows whose status is in `statuses` go back to pending
ResetRows(rows, statuses, t) ==
    [i \in 1..Len(rows) |->
        IF rows[i].upload_status \in statuses
        THEN [rows[i] EXCEPT !.upload_status = "pending",
                             !.upload_time = NULL,
                             !.upload_result = NULL,
                             !.updated_time = t]
        ELSE rows[i]]

RowCount(rows, statuses) ==
    Cardinality({i \in 1..Len(rows) : rows[i].upload_status \in statuses})

\* Faulty variant: reset_failed_records changes no row
ResetFailedRecords_Nothing(rows, t) == [rows |-> rows, ret |-> 0]

\* Faulty variant: reset_failed_records resets the uploaded rows as well
ResetFailedRecords_Terminal(rows, t) ==
    [rows |-> ResetRows(rows, {"uploaded", "failed"}, t),
     ret |-> RowCount(rows, {"uploaded", "failed"})]

\* Faulty variant: reset_failed_records deletes the failed rows
ResetFailedRecords_Delete(rows, t) ==
    [rows |-> SelectSeq(rows, LAMBDA r : r.upload_status # "failed"),
     ret |-> RowCount(rows, {"failed"})]

\* RecordTracker.reset_failed_records
ResetFailedRecords(rows, t) ==
    [rows |-> ResetRows(rows, {"failed"}, t), ret |-> RowCount(rows, {"failed"})]

\* RecordTracker.reset_all_records_to_pending
ResetAllRecordsToPending(rows, t) ==
    [rows |-> ResetRows(rows, {"uploaded", "failed"}, t),
     ret |-> RowCount(rows, {"uploaded", "failed"})]

---------------------------------------------------------------------------
(* direct_calendar_uploader.py and the chunk handling of scheduler.py *)

\* What one batch_upload_records call meets: no tenant token (no request is made),
\* a request that raises, or a response with a status code and a JSON body
TransportOutcomes ==
    {[tenant_token |-> NULL],
     [tenant_token |-> Some("t"), raises |-> TRUE],
     [tenant_token |-> Some("t"), status_code |-> 200,
      body |-> [code |-> 0, msg |-> Text("success")]],
     [tenant_token |-> Some("t"), status_code |-> 200,
      body |-> [code |-> 1254001, msg |-> Text("WrongRequestBody")]],
     [tenant_token |-> Some("t"), status_code |-> 500,
      body |-> [code |-> 0, msg |-> Text("success")]]}

\* DirectCalendarUploader.batch_upload_records: None or the parsed response body
BatchUploadRecords(records, outcome) ==
    IF records = <<>> THEN NULL
    ELSE IF outcome.tenant_token = NULL THEN NULL
    ELSE IF "raises" \in DOMAIN outcome THEN NULL
    ELSE IF outcome.status_code = 200 THEN Some(outcome.body)
    ELSE NULL

\* Faulty variant: any parsed response body counts as success
ChunkUploaded_AnyResult(res) == res # NULL

\* if result and result.get('code') == 0
ChunkUploaded(res) ==
    /\ res # NULL
    /\ Val(res) # EmptyDict
    /\ "code" \in DOMAIN Val(res)
    /\ Val(res).code = 0

\* error_msg = result.get('msg', <unknown error>) if result else <network error>
ErrorMsg(res) ==
    IF res # NULL /\ Val(res) # EmptyDict
    THEN Get(Val(res), "msg", Text("unknown error"))
    ELSE Text("network error")

\* `a or b` on two nullable integers
Or(a, b) == IF Truthy(a) THEN a ELSE b

\* The upload record built from one pending row; event_id is carried along to
\* tell which row a payload entry came from
UploadRecord(record) ==
    [event_id |-> record.event_id,
     fields |-> [Summary |-> IF record.summary = NULL THEN "" ELSE Val(record.summary),
                 StartTime |-> record.start_time,
                 EndTime |-> Or(record.end_time, record.start_time),
                 Person |-> record.person_name]]

\* Faulty variant: the slice takes one record more than batch_size
BatchRecords_OneMore(pending, i, size) ==
    SubSeq(pending, i + 1, IF i + size + 1 < Len(pending) THEN i + size + 1 ELSE Len(pending))

\* batch_records = pending_records[i:i + batch_size]
BatchRecords(pending, i, size) ==
    SubSeq(pending, i + 1, IF i + size < Len(pending) THEN i + size ELSE Len(pending))

UploadBatch(batch_records) == [k \in 1..Len(batch_records) |-> UploadRecord(batch_records[k])]

---------------------------------------------------------------------------
(* State *)

\* The clock does not run backwards; between two operations it stands or moves on
Clock == {t \in now..(now + 1) : t <= MaxTime}

NoCycle == [uploaded |-> 0, failed |-> 0]

NoAnswer == EmptyDict

\* A process slot before its program is started
NotStarted == [state |-> "none", cmdline |-> "", mode |-> "", stop_event |-> FALSE, old_pid |-> 0]

\* A process inside CalendarScheduler.run after create_pid_file and signal.signal:
\* cmdline is the script it was started with
Scheduler(cmdline) ==
    [state |-> "running", cmdline |-> cmdline, mode |-> "run", stop_event |-> FALSE,
     old_pid |-> 0]

Init ==
    /\ calendar_records = <<>>
    /\ now = 0
    /\ utc_offset = 0
    /\ batch_size \in BatchSizes
    /\ pc = [p \in Procs |-> "idle"]
    /\ pending_records = [p \in Procs |-> <<>>]
    /\ chunk_start = [p \in Procs |-> 0]
    /\ event_ids = [p \in Procs |-> <<>>]
    /\ mark_index = [p \in Procs |-> 0]
    /\ result = [p \in Procs |-> NULL]
    /\ counts = [p \in Procs |-> NoCycle]
    /\ sent = [p \in Procs |-> <<>>]
    /\ outcomes = [p \in Procs |-> <<>>]
    /\ cur = [p \in Procs |-> NoEvent]
    /\ lastIngest = [e \in EventIds |-> NoEvent]
    /\ trail = [e \in EventIds |-> "none"]
    /\ upload_logs = <<>>
    /\ answer = NoAnswer
    /\ pid_file = Some(1)
    /\ proc = [p \in Procs |-> IF p = 1 THEN Scheduler("scheduler.py") ELSE NotStarted]

\* State that no step of a cycle and no write of a record touches
unwritten == <<upload_logs, answer, pid_file, proc>>

config == <<utc_offset, batch_size>>
cycle == <<pending_records, chunk_start, event_ids, mark_index, result, counts, sent, outcomes>>
history == <<lastIngest, trail>>

Idle == \A p \in Procs : pc[p] = "idle"

\* The status of the row of event_id, "absent" without one
StatusOf(rows, event_id) ==
    IF Matching(rows, event_id) = {} THEN "absent"
    ELSE rows[Min(Matching(rows, event_id))].upload_status

\* The transport call was answered with HTTP 200 and application code 0
Succeeded(outcome) ==
    /\ outcome.tenant_token # NULL
    /\ "raises" \notin DOMAIN outcome
    /\ outcome.status_code = 200
    /\ outcome.body.code = 0

\* The event differs in a fingerprinted field from the one last ingested under its event_id
ContentChanged(event) ==
    /\ lastIngest[event.event_id] # NoEvent
    /\ GenerateRecordHash(event) # GenerateRecordHash(lastIngest[event.event_id])

\* History of an add_or_update_record call
IngestTrail(event) ==
    IF lastIngest[event.event_id] = NoEvent
    THEN [trail EXCEPT ![event.event_id] = "new"]
    ELSE IF ContentChanged(event)
         THEN [trail EXCEPT ![event.event_id] =
                 IF @ \in {"confirmed", "retried"} THEN "changed_uploaded"
                 ELSE IF @ = "failed" THEN "changed_failed"
                 ELSE @]
         ELSE trail

\* History of a reset of the rows whose status is in `statuses`
ResetTrail(statuses) ==
    [e \in EventIds |->
        IF trail[e] = "failed" /\ "failed" \in statuses THEN "retry"
        ELSE IF trail[e] \in {"confirmed", "retried"} /\ "uploaded" \in statuses
             THEN "reset_uploaded"
             ELSE trail[e]]

---------------------------------------------------------------------------
(* scheduler.py: one sync cycle of process p *)

\* execute_main_task up to the ingest phase: the workday check, the token and the
\* fetch of the calendar data either let the cycle go on or end it
Gates == {"pass", "weekend", "no_token", "fetch_failed"}

StartCycle(p, gate) ==
    /\ Idle
    /\ pc' = [pc EXCEPT ![p] = IF gate = "pass" THEN "load" ELSE "idle"]
    /\ UNCHANGED <<calendar_records, now, config, unwritten, cycle, cur, history>>

\* _load_calendar_records with the test of line 180 left out: every event goes to
\* add_or_update_record
LoadEvent_NoFilter(p, file_path, event, t) ==
    /\ pc[p] = "load"
    /\ now' = t
    /\ calendar_records' = AddOrUpdateRecord(calendar_records, event,
                               PersonName(file_path), file_path, t).rows
    /\ IF HasEventId(event)
       THEN /\ lastIngest' = [lastIngest EXCEPT ![event.event_id] = event]
            /\ trail' = IngestTrail(event)
       ELSE UNCHANGED history
    /\ UNCHANGED <<config, unwritten, pc, cycle>>

\* _load_calendar_records, one event of one calendar file: a cancelled event is
\* skipped, any other goes to add_or_update_record
LoadEvent(p, file_path, event, t) ==
    /\ pc[p] = "load"
    /\ now' = t
    /\ IF Get(event, "status", "") # "cancelled"
       THEN /\ calendar_records' = AddOrUpdateRecord(calendar_records, event,
                                       PersonName(file_path), file_path, t).rows
            /\ IF HasEventId(event)
               THEN /\ lastIngest' = [lastIngest EXCEPT ![event.event_id] = event]
                    /\ trail' = IngestTrail(event)
               ELSE UNCHANGED history
       ELSE UNCHANGED <<calendar_records, history>>
    /\ UNCHANGED <<config, unwritten, pc, cycle>>

IngestEvent(p, file_path, event, t) ==
    /\ LoadEvent(p, file_path, event, t)
    /\ UNCHANGED cur

\* _upload_pending_records up to the chunk loop: the pending rows are read once;
\* with none the phase returns
SelectPending(p, pending) ==
    /\ pc[p] = "load"
    /\ pending \in GetPendingRecords(calendar_records, NULL, NULL)
    /\ pending_records' = [pending_records EXCEPT ![p] = pending]
    /\ pc' = [pc EXCEPT ![p] = IF pending = <<>> THEN "idle" ELSE "upload"]
    /\ UNCHANGED <<calendar_records, now, config, unwritten, chunk_start, event_ids, mark_index,
                   result, counts, sent, outcomes, cur, history>>

\* One iteration of the chunk loop up to the transport's answer
Transport(p, outcome) ==
    /\ pc[p] = "upload"
    /\ LET batch_records == BatchRecords(pending_records[p], chunk_start[p], batch_size)
           upload_batch == UploadBatch(batch_records)
       IN /\ result' = [result EXCEPT ![p] = BatchUploadRecords(upload_batch, outcome)]
          /\ event_ids' = [event_ids EXCEPT
                             ![p] = [k \in 1..Len(batch_records) |-> batch_records[k].event_id]]
          /\ sent' = [sent EXCEPT ![p] = Append(@, upload_batch)]
          /\ outcomes' = [outcomes EXCEPT ![p] = Append(@, outcome)]
    /\ mark_index' = [mark_index EXCEPT ![p] = 0]
    /\ pc' = [pc EXCEPT ![p] = "mark"]
    /\ UNCHANGED <<calendar_records, now, config, unwritten, pending_records, chunk_start, counts,
                   cur, history>>

\* The rest of the iteration, one event_id at a time: mark_as_uploaded when the
\* chunk was uploaded, mark_as_failed with the error message otherwise; after the
\* last one the count is raised and the loop goes to the next chunk or ends
MarkRecord(p, t) ==
    /\ pc[p] = "mark"
    /\ LET event_id == event_ids[p][mark_index[p] + 1]
           n == Len(event_ids[p])
       IN /\ now' = t
          /\ calendar_records' =
                IF ChunkUploaded(result[p])
                THEN MarkAsUploaded(calendar_records, event_id,
                                    Text("batch upload succeeded"), t).rows
                ELSE MarkAsFailed(calendar_records, event_id, ErrorMsg(result[p]), t).rows
          /\ trail' = [trail EXCEPT ![event_id] =
                         IF Succeeded(outcomes[p][Len(outcomes[p])])
                         THEN IF @ = "retry" THEN "retried" ELSE "confirmed"
                         ELSE "failed"]
          /\ mark_index' = [mark_index EXCEPT ![p] = @ + 1]
          /\ IF mark_index[p] + 1 = n
             THEN /\ counts' = [counts EXCEPT
                                  ![p] = IF ChunkUploaded(result[p])
                                         THEN [@ EXCEPT !.uploaded = @ + n]
                                         ELSE [@ EXCEPT !.failed = @ + n]]
                  /\ chunk_start' = [chunk_start EXCEPT ![p] = @ + batch_size]
                  /\ pc' = [pc EXCEPT ![p] =
                              IF chunk_start[p] + batch_size < Len(pending_records[p])
                              THEN "upload" ELSE "report"]
             ELSE UNCHANGED <<counts, chunk_start, pc>>
    /\ UNCHANGED <<config, unwritten, pending_records, event_ids, result, sent, outcomes, cur, lastIngest>>

\* The end of _upload_pending_records and of execute_main_task: the counts are reported
Report(p) ==
    /\ pc[p] = "report"
    /\ pc' = [pc EXCEPT ![p] = "idle"]
    /\ pending_records' = [pending_records EXCEPT ![p] = <<>>]
    /\ chunk_start' = [chunk_start EXCEPT ![p] = 0]
    /\ event_ids' = [event_ids EXCEPT ![p] = <<>>]
    /\ mark_index' = [mark_index EXCEPT ![p] = 0]
    /\ result' = [result EXCEPT ![p] = NULL]
    /\ counts' = [counts EXCEPT ![p] = NoCycle]
    /\ sent' = [sent EXCEPT ![p] = <<>>]
    /\ outcomes' = [outcomes EXCEPT ![p] = <<>>]
    /\ UNCHANGED <<calendar_records, now, config, unwritten, cur, history>>

---------------------------------------------------------------------------
(* record_tracker.py: the administrative operations, called between cycles *)

ResetFailed(t) ==
    /\ Idle
    /\ now' = t
    /\ calendar_records' = ResetFailedRecords(calendar_records, t).rows
    /\ trail' = ResetTrail({"failed"})
    /\ UNCHANGED <<config, unwritten, pc, cycle, cur, lastIngest>>

ResetAll(t) ==
    /\ Idle
    /\ now' = t
    /\ calendar_records' = ResetAllRecordsToPending(calendar_records, t).rows
    /\ trail' = ResetTrail({"uploaded", "failed"})
    /\ UNCHANGED <<config, unwritten, pc, cycle, cur, lastIngest>>

\* RecordTracker.clear_all_records: DELETE FROM calendar_records, DELETE FROM upload_logs
ClearAll ==
    /\ Idle
    /\ calendar_records' = <<>>
    /\ lastIngest' = [e \in EventIds |-> NoEvent]
    /\ trail' = [e \in EventIds |-> "none"]
    /\ upload_logs' = <<>>
    /\ UNCHANGED <<now, config, answer, pid_file, proc, pc, cycle, cur>>

Next ==
    \/ \E gate \in Gates : StartCycle(1, gate)
    \/ \E file_path \in OneCalendar, event \in Events, t \in Clock :
          IngestEvent(1, file_path, event, t)
    \/ \E pending \in GetPendingRecords(calendar_records, NULL, NULL) :
          SelectPending(1, pending)
    \/ \E outcome \in TransportOutcomes : Transport(1, outcome)
    \/ \E t \in Clock : MarkRecord(1, t)
    \/ Report(1)
    \/ \E t \in Clock : ResetFailed(t)
    \/ \E t \in Clock : ResetAll(t)
    \/ ClearAll

Spec == Init /\ [][Next]_vars

---------------------------------------------------------------------------
(* The ingest phase over calendar files of any content *)

\* Items of a calendar file whose title is empty or blank
UntitledContents ==
    {[summary |-> "", start_time |-> [timestamp |-> 1], end_time |-> [timestamp |-> 2],
      status |-> "confirmed"],
     [summary |-> " ", start_time |-> [timestamp |-> 1], end_time |-> [timestamp |-> 2],
      status |-> "confirmed"]}

\* What a calendar file can hold: titled events, confirmed or cancelled, and
\* untitled ones
FileEvents ==
    {WithId(c, id) : c \in {d \in EventContents : d.summary = "A"} \cup UntitledContents,
                     id \in EventIds}

\* One iteration of the loop over events_data["data"]["items"]; cur[p] is the
\* loop variable `event`
ReadEvent(p, file_path, event, t) ==
    /\ LoadEvent(p, file_path, event, t)
    /\ cur' = [cur EXCEPT ![p] = event]

NextIngest ==
    \/ \E gate \in Gates : StartCycle(1, gate)
    \/ \E file_path \in OneCalendar, event \in FileEvents, t \in Clock :
          ReadEvent(1, file_path, event, t)
    \/ \E pending \in GetPendingRecords(calendar_records, NULL, NULL) :
          SelectPending(1, pending)
    \/ \E outcome \in TransportOutcomes : Transport(1, outcome)
    \/ \E t \in Clock : MarkRecord(1, t)
    \/ Report(1)

SpecIngest == Init /\ [][NextIngest]_vars

---------------------------------------------------------------------------
(* The upload phase over a store left by earlier cycles *)

RecordIds == 1..MaxRecords

\* The event a tracked record was ingested from
TrackedEvent(id) ==
    WithId(CHOOSE c \in EventContents : c.summary = "A" /\ c.status = "confirmed", id)

\* The row of event `id` in a store of n rows: inserted at a second of its own
\* before the cycle (time 0 is the start of the cycle), then marked or not
StoredRow(id, n, status) ==
    LET person == IF id % 2 = 1 THEN "alice" ELSE "bob"
        file_path == <<"data/personal_calendars", person, ".txt">>
        row == NewRow(TrackedEvent(id), person, file_path, id - n)
    IN IF status = "pending" THEN row
       ELSE IF status = "uploaded"
            THEN MarkAsUploaded(<<row>>, id, Text("batch upload succeeded"), 0).rows[1]
            ELSE MarkAsFailed(<<row>>, id, Text("network error"), 0).rows[1]

Stores ==
    UNION {{[i \in 1..n |-> StoredRow(i, n, st[i])] :
               st \in [1..n -> {"pending", "uploaded", "failed"}]} : n \in 0..MaxRecords}

InitBatch ==
    /\ calendar_records \in Stores
    /\ now = 0
    /\ utc_offset = 0
    /\ batch_size \in BatchSizes
    /\ pc = [p \in Procs |-> "idle"]
    /\ pending_records = [p \in Procs |-> <<>>]
    /\ chunk_start = [p \in Procs |-> 0]
    /\ event_ids = [p \in Procs |-> <<>>]
    /\ mark_index = [p \in Procs |-> 0]
    /\ result = [p \in Procs |-> NULL]
    /\ counts = [p \in Procs |-> NoCycle]
    /\ sent = [p \in Procs |-> <<>>]
    /\ outcomes = [p \in Procs |-> <<>>]
    /\ cur = [p \in Procs |-> NoEvent]
    /\ lastIngest = [e \in RecordIds |->
                       IF e <= Len(calendar_records) THEN TrackedEvent(e) ELSE NoEvent]
    /\ trail = [e \in RecordIds |->
                  IF e > Len(calendar_records) THEN "none"
                  ELSE IF calendar_records[e].upload_status = "pending" THEN "new"
                  ELSE IF calendar_records[e].upload_status = "uploaded" THEN "confirmed"
                  ELSE "failed"]
    /\ upload_logs = <<>>
    /\ answer = NoAnswer
    /\ pid_file = Some(1)
    /\ proc = [p \in Procs |-> IF p = 1 THEN Scheduler("scheduler.py") ELSE NotStarted]

\* A cycle whose calendar files hold nothing new
NextBatch ==
    \/ \E gate \in Gates : StartCycle(1, gate)
    \/ \E pending \in GetPendingRecords(calendar_records, NULL, NULL) :
          SelectPending(1, pending)
    \/ \E outcome \in TransportOutcomes : Transport(1, outcome)
    \/ \E t \in Clock : MarkRecord(1, t)
    \/ Report(1)

SpecBatch == InitBatch /\ [][NextBatch]_vars

---------------------------------------------------------------------------
(* The queries of the store, asked of a store left by earlier cycles *)

\* The state in which nothing runs, over the given table; a row's history is
\* read off its status
Quiet(rows) ==
    /\ calendar_records = rows
    /\ now = 0
    /\ utc_offset = 0
    /\ batch_size \in BatchSizes
    /\ pc = [p \in Procs |-> "idle"]
    /\ pending_records = [p \in Procs |-> <<>>]
    /\ chunk_start = [p \in Procs |-> 0]
    /\ event_ids = [p \in Procs |-> <<>>]
    /\ mark_index = [p \in Procs |-> 0]
    /\ result = [p \in Procs |-> NULL]
    /\ counts = [p \in Procs |-> NoCycle]
    /\ sent = [p \in Procs |-> <<>>]
    /\ outcomes = [p \in Procs |-> <<>>]
    /\ cur = [p \in Procs |-> NoEvent]
    /\ lastIngest = [e \in RecordIds |-> IF e <= Len(rows) THEN TrackedEvent(e) ELSE NoEvent]
    /\ trail = [e \in RecordIds |->
                  IF e > Len(rows) THEN "none"
                  ELSE IF rows[e].upload_status = "pending" THEN "new"
                  ELSE IF rows[e].upload_status = "uploaded" THEN "confirmed"
                  ELSE "failed"]
    /\ upload_logs = <<>>
    /\ answer = NoAnswer
    /\ pid_file = Some(1)
    /\ proc = [p \in Procs |-> IF p = 1 THEN Scheduler("scheduler.py") ELSE NotStarted]

\* The rows were inserted two to a second
InPairs(rows) ==
    [i \in 1..Len(rows) |-> [rows[i] EXCEPT !.created_time = (i - Len(rows) - 1) \div 2]]

QueryStores == Stores \cup {InPairs(rows) : rows \in Stores}

\* Arguments a caller can give get_pending_records
PersonArgs == {NULL, Some("")} \cup {Some(n) : n \in Persons}
LimitArgs == {NULL} \cup {Some(l) : l \in 0..MaxRecords}

InitQuery == \E rows \in QueryStores : Quiet(rows)

\* A call of get_pending_records(person_name, limit)
QueryPending(person_name, limit, ret) ==
    /\ ret \in GetPendingRecords(calendar_records, person_name, limit)
    /\ answer' = [call |-> "get_pending_records", person_name |-> person_name,
                  limit |-> limit, ret |-> ret]
    /\ UNCHANGED <<calendar_records, now, config, upload_logs, pid_file, proc, pc, cycle, cur,
                   history>>

\* A call of get_upload_statistics()
QueryStatistics(ret) ==
    /\ ret \in GetUploadStatistics(calendar_records, now)
    /\ answer' = [call |-> "get_upload_statistics", ret |-> ret]
    /\ UNCHANGED <<calendar_records, now, config, upload_logs, pid_file, proc, pc, cycle, cur,
                   history>>

NextQuery ==
    \/ \E person_name \in PersonArgs, limit \in LimitArgs :
          \E ret \in GetPendingRecords(calendar_records, person_name, limit) :
             QueryPending(person_name, limit, ret)
    \/ \E ret \in GetUploadStatistics(calendar_records, now) : QueryStatistics(ret)

SpecQuery == InitQuery /\ [][NextQuery]_vars

---------------------------------------------------------------------------
(* Two processes on one database file, each inside _load_calendar_records *)

\* Process p is between the SELECT and the write of an add_or_update_record call;
\* after the call cur[p] keeps what it returned and the exception it caught
InCall(p) == cur[p] # NoEvent /\ "event_data" \in DOMAIN cur[p]

Returned(ret, error) == [ret |-> ret, error |-> error]

\* add_or_update_record up to fetchone(): the SELECT runs outside a transaction
AddSelect(p, file_path, event) ==
    /\ ~InCall(p)
    /\ Get(event, "status", "") # "cancelled"
    /\ HasEventId(event)
    /\ cur' = [cur EXCEPT ![p] =
                 [event_data |-> event,
                  calendar_file |-> file_path,
                  existing_record |-> SelectExisting(calendar_records, event.event_id)]]
    /\ UNCHANGED <<calendar_records, now, config, unwritten, pc, cycle, history>>

\* The rest of add_or_update_record: the UPDATE or INSERT and its commit as one
\* write transaction; an IntegrityError is caught and the call returns False
AddCommit(p, t) ==
    /\ InCall(p)
    /\ now' = t
    /\ LET written == AddWrite(calendar_records, cur[p].existing_record, cur[p].event_data,
                               PersonName(cur[p].calendar_file), cur[p].calendar_file, t)
       IN /\ calendar_records' = written.rows
          /\ cur' = [cur EXCEPT ![p] =
                       Returned(written.ret,
                                IF /\ cur[p].existing_record = NULL
                                   /\ UniqueViolation(calendar_records,
                                                       cur[p].event_data.event_id)
                                THEN "IntegrityError" ELSE "none")]
    /\ UNCHANGED <<config, unwritten, pc, cycle, history>>

\* The write meets a database held by the other process beyond the busy timeout:
\* sqlite3.OperationalError is caught and the call returns False
AddLocked(p) ==
    /\ InCall(p)
    /\ \E q \in Procs \ {p} : InCall(q)
    /\ cur' = [cur EXCEPT ![p] = Returned(FALSE, "OperationalError")]
    /\ UNCHANGED <<calendar_records, now, config, unwritten, pc, cycle, history>>

NextConc ==
    \/ \E p \in Procs, file_path \in CalendarFiles, event \in Events :
          AddSelect(p, file_path, event)
    \/ \E p \in Procs, t \in Clock : AddCommit(p, t)
    \/ \E p \in Procs : AddLocked(p)

SpecConc == Init /\ [][NextConc]_vars

---------------------------------------------------------------------------
(* One sync cycle after another over a store whose statements can fail *)

MaxFile == 2     \* events of a calendar file

\* The exception a statement of the store raises (disk full, database locked, ...)
StoreError == "sqlite3.Error"

\* One titled, confirmed event per event_id: every one of them is due a record
FaultEvents == {TrackedEvent(id) : id \in EventIds}

\* data.items of a calendar file
FileContents == UNION {[1..n -> FaultEvents] : n \in 1..MaxFile}

\* The file loop has gone through every event of the file
FileRead(p) == cur[p] # NoEvent /\ cur[p].index = Len(cur[p].events)

\* execute_main_task up to the event loop of _load_calendar_records: the gates are
\* passed and the calendar file is parsed. cur[p] holds the loop's list and
\* position, what each add_or_update_record call returned and the event_ids whose
\* mark call failed
OpenCalendar(p, events) ==
    /\ Idle
    /\ pc' = [pc EXCEPT ![p] = "load"]
    /\ cur' = [cur EXCEPT ![p] = [events |-> events, index |-> 0, returns |-> <<>>,
                                  failed_marks |-> {}]]
    /\ UNCHANGED <<calendar_records, now, config, unwritten, cycle, history>>

\* One iteration of the event loop whose statements succeed
LoadNext(p, file_path, t) ==
    /\ cur[p] # NoEvent
    /\ ~FileRead(p)
    /\ LET event == cur[p].events[cur[p].index + 1]
       IN /\ LoadEvent(p, file_path, event, t)
          /\ cur' = [cur EXCEPT
                       ![p].index = @ + 1,
                       ![p].returns = Append(@,
                           Returned(AddOrUpdateRecord(calendar_records, event,
                                        PersonName(file_path), file_path, t).ret, "none"))]

\* Faulty variant: the exception leaves add_or_update_record and ends the loop
\* over the file in the handler of _load_calendar_records
UpsertFails_Raises(p) ==
    /\ pc[p] = "load"
    /\ cur[p] # NoEvent
    /\ ~FileRead(p)
    /\ cur' = [cur EXCEPT ![p].index = Len(cur[p].events),
                          ![p].returns = Append(@, Returned(FALSE, StoreError))]
    /\ UNCHANGED <<calendar_records, now, config, unwritten, pc, cycle, history>>

\* One iteration of the event loop in which a statement of add_or_update_record
\* raises: nothing is committed, the handler of add_or_update_record returns
\* False and the loop goes on
UpsertFails(p) ==
    /\ pc[p] = "load"
    /\ cur[p] # NoEvent
    /\ ~FileRead(p)
    /\ cur' = [cur EXCEPT ![p].index = @ + 1,
                          ![p].returns = Append(@, Returned(FALSE, StoreError))]
    /\ UNCHANGED <<calendar_records, now, config, unwritten, pc, cycle, history>>

\* The upload phase starts when the file loop is over
EndLoad(p, pending) ==
    /\ FileRead(p)
    /\ SelectPending(p, pending)

\* get_pending_records raises: its handler returns [], the phase returns as it
\* does with nothing pending
SelectFails(p) ==
    /\ FileRead(p)
    /\ SelectPending(p, <<>>)

\* mark_as_uploaded or mark_as_failed raises: nothing is committed, the handler
\* returns False, which _upload_pending_records does not look at; the chunk is
\* counted and the loop goes on as after a mark that succeeded
MarkFails(p) ==
    /\ pc[p] = "mark"
    /\ LET event_id == event_ids[p][mark_index[p] + 1]
           n == Len(event_ids[p])
       IN /\ cur' = [cur EXCEPT ![p].failed_marks = @ \cup {event_id}]
          /\ mark_index' = [mark_index EXCEPT ![p] = @ + 1]
          /\ IF mark_index[p] + 1 = n
             THEN /\ counts' = [counts EXCEPT
                                  ![p] = IF ChunkUploaded(result[p])
                                         THEN [@ EXCEPT !.uploaded = @ + n]
                                         ELSE [@ EXCEPT !.failed = @ + n]]
                  /\ chunk_start' = [chunk_start EXCEPT ![p] = @ + batch_size]
                  /\ pc' = [pc EXCEPT ![p] =
                              IF chunk_start[p] + batch_size < Len(pending_records[p])
                              THEN "upload" ELSE "report"]
             ELSE UNCHANGED <<counts, chunk_start, pc>>
    /\ UNCHANGED <<calendar_records, now, config, unwritten, pending_records, event_ids,
                   result, sent, outcomes, history>>

NextFaults ==
    \/ \E events \in FileContents : OpenCalendar(1, events)
    \/ \E file_path \in OneCalendar, t \in Clock : LoadNext(1, file_path, t)
    \/ UpsertFails(1)
    \/ \E pending \in GetPendingRecords(calendar_records, NULL, NULL) : EndLoad(1, pending)
    \/ SelectFails(1)
    \/ \E outcome \in TransportOutcomes : Transport(1, outcome)
    \/ \E t \in Clock : MarkRecord(1, t)
    \/ MarkFails(1)
    \/ Report(1)

SpecFaults == Init /\ [][NextFaults]_vars

---------------------------------------------------------------------------
(* A cycle whose transport calls may get no response *)

\* requests.post of batch_upload_records or of get_tenant_access_token is given no
\* timeout: with no response from the peer the call does not return and the
\* process stays inside it
TransportWaits(p) ==
    /\ pc[p] = "upload"
    /\ pc' = [pc EXCEPT ![p] = "waiting"]
    /\ UNCHANGED <<calendar_records, now, config, unwritten, cycle, cur, history>>

NextWait ==
    \/ \E gate \in Gates : StartCycle(1, gate)
    \/ \E file_path \in OneCalendar, event \in FaultEvents, t \in Clock :
          IngestEvent(1, file_path, event, t)
    \/ \E pending \in GetPendingRecords(calendar_records, NULL, NULL) :
          SelectPending(1, pending)
    \/ \E outcome \in TransportOutcomes : Transport(1, outcome)
    \/ TransportWaits(1)
    \/ \E t \in Clock : MarkRecord(1, t)
    \/ Report(1)

\* The process runs on whenever it can: the event loop over the finite files ends
\* and the upload phase starts, a transport call is made, each record of a chunk
\* is marked, the counts are reported
SpecWait ==
    /\ Init
    /\ [][NextWait]_vars
    /\ WF_vars(\E pending \in GetPendingRecords(calendar_records, NULL, NULL) :
                  SelectPending(1, pending))
    /\ WF_vars((\E outcome \in TransportOutcomes : Transport(1, outcome)) \/ TransportWaits(1))
    /\ WF_vars(\E t \in Clock : MarkRecord(1, t))
    /\ WF_vars(Report(1))

---------------------------------------------------------------------------
(* Processes: starting, signalling and stopping the program *)

\* The script a process is started with: python scheduler.py ... or python run.py ...
CmdLines == {"scheduler.py", "run.py"}

\* psutil.pid_exists
Alive(p) == proc[p].state \in {"starting", "running"}

\* SIGINT and SIGTERM are handled by handle_signal: only run installs it
Handles(p) == proc[p].state = "running" /\ proc[p].mode = "run"

\* SIGINT or SIGTERM delivered to process q: handle_signal sets stop_event;
\* without the handler SIGTERM ends the process and SIGINT raises
\* KeyboardInterrupt, which no `except Exception` catches
Signalled(q) ==
    [proc EXCEPT ![q] = IF Handles(q) THEN [@ EXCEPT !.stop_event = TRUE]
                        ELSE [@ EXCEPT !.state = "stopped"]]

\* The process executes its ingest or upload phase
InCycle(p) == proc[p].state = "running" /\ pc[p] \in {"load", "upload", "mark"}

\* run up to its main loop: kill_existing_process reads the pid file and
\* terminates the process it names when that process exists and its command line
\* contains scheduler.py, then waits for it; otherwise, and with no pid file,
\* the pid file is replaced at once and the handlers are installed
StartRun(p, cmdline) ==
    /\ proc[p].state = "none"
    /\ IF /\ pid_file # NULL
          /\ Alive(Val(pid_file))
          /\ proc[Val(pid_file)].cmdline = "scheduler.py"
       THEN /\ proc' = [Signalled(Val(pid_file)) EXCEPT
                          ![p] = [state |-> "starting", cmdline |-> cmdline, mode |-> "run",
                                  stop_event |-> FALSE, old_pid |-> Val(pid_file)]]
            /\ UNCHANGED pid_file
       ELSE /\ proc' = [proc EXCEPT ![p] = Scheduler(cmdline)]
            /\ pid_file' = Some(p)
    /\ UNCHANGED <<calendar_records, now, config, upload_logs, answer, pc, cycle, cur, history>>

\* proc.wait(timeout=10) returns because the old process has ended
WaitReturns(p) ==
    /\ proc[p].state = "starting"
    /\ ~Alive(proc[p].old_pid)
    /\ proc' = [proc EXCEPT ![p] = Scheduler(proc[p].cmdline)]
    /\ pid_file' = Some(p)
    /\ UNCHANGED <<calendar_records, now, config, upload_logs, answer, pc, cycle, cur, history>>

\* proc.wait(timeout=10) raises TimeoutExpired because the old process still runs:
\* proc.kill() ends it at once
WaitTimesOut(p) ==
    /\ proc[p].state = "starting"
    /\ Alive(proc[p].old_pid)
    /\ proc' = [proc EXCEPT ![p] = Scheduler(proc[p].cmdline),
                            ![proc[p].old_pid].state = "stopped"]
    /\ pid_file' = Some(p)
    /\ UNCHANGED <<calendar_records, now, config, upload_logs, answer, pc, cycle, cur, history>>

\* run_once: no pid file is read or written and no handler installed; the token
\* is fetched and execute_main_task(force_execute=True, skip_auth=True) called
StartOnce(p, cmdline, gate) ==
    /\ proc[p].state = "none"
    /\ gate # "weekend"
    /\ proc' = [proc EXCEPT ![p] = [state |-> IF gate = "no_token" THEN "stopped" ELSE "running",
                                    cmdline |-> cmdline, mode |-> "run_once",
                                    stop_event |-> FALSE, old_pid |-> 0]]
    /\ pc' = [pc EXCEPT ![p] = IF gate = "pass" THEN "load" ELSE "idle"]
    /\ UNCHANGED <<calendar_records, now, config, upload_logs, answer, pid_file, cycle, cur,
                   history>>

\* The main loop of run: schedule.run_pending() calls execute_main_task while
\* stop_event is not set
BeginCycle(p, gate) ==
    /\ Handles(p)
    /\ ~proc[p].stop_event
    /\ pc[p] = "idle"
    /\ pc' = [pc EXCEPT ![p] = IF gate = "pass" THEN "load" ELSE "idle"]
    /\ UNCHANGED <<calendar_records, now, config, unwritten, cycle, cur, history>>

\* SIGINT or SIGTERM from outside: Ctrl+C, kill, or scheduler.py --stop for the
\* process named in the pid file
Signal(q) ==
    /\ Alive(q)
    /\ proc' = Signalled(q)
    /\ UNCHANGED <<calendar_records, now, config, upload_logs, answer, pid_file, pc, cycle, cur,
                   history>>

\* The process ends by itself: run_once after its cycle, run when its loop sees
\* stop_event set, then remove_pid_file
Exit(p) ==
    /\ proc[p].state = "running"
    /\ pc[p] = "idle"
    /\ proc[p].mode = "run_once" \/ proc[p].stop_event
    /\ proc' = [proc EXCEPT ![p].state = "stopped"]
    /\ pid_file' = IF proc[p].mode = "run" THEN NULL ELSE pid_file
    /\ UNCHANGED <<calendar_records, now, config, upload_logs, answer, pc, cycle, cur, history>>

\* A step of the cycle of a process that runs; the calendar holds one event and
\* the steps of the processes fall within one second
Step(p) ==
    /\ proc[p].state = "running"
    /\ \/ \E file_path \in OneCalendar : IngestEvent(p, file_path, TrackedEvent(1), now)
       \/ \E pending \in GetPendingRecords(calendar_records, NULL, NULL) :
             SelectPending(p, pending)
       \/ \E outcome \in TransportOutcomes : Transport(p, outcome)
       \/ MarkRecord(p, now)
       \/ Report(p)

InitProc ==
    /\ calendar_records = <<>>
    /\ now = 0
    /\ utc_offset = 0
    /\ batch_size \in BatchSizes
    /\ pc = [p \in Procs |-> "idle"]
    /\ pending_records = [p \in Procs |-> <<>>]
    /\ chunk_start = [p \in Procs |-> 0]
    /\ event_ids = [p \in Procs |-> <<>>]
    /\ mark_index = [p \in Procs |-> 0]
    /\ result = [p \in Procs |-> NULL]
    /\ counts = [p \in Procs |-> NoCycle]
    /\ sent = [p \in Procs |-> <<>>]
    /\ outcomes = [p \in Procs |-> <<>>]
    /\ cur = [p \in Procs |-> NoEvent]
    /\ lastIngest = [e \in EventIds |-> NoEvent]
    /\ trail = [e \in EventIds |-> "none"]
    /\ upload_logs = <<>>
    /\ answer = NoAnswer
    /\ pid_file = NULL
    /\ proc = [p \in Procs |-> NotStarted]

NextProc ==
    \/ \E p \in Procs, cmdline \in CmdLines : StartRun(p, cmdline)
    \/ \E p \in Procs : WaitReturns(p)
    \/ \E p \in Procs : WaitTimesOut(p)
    \/ \E p \in Procs, cmdline \in CmdLines, gate \in Gates : StartOnce(p, cmdline, gate)
    \/ \E p \in Procs, gate \in Gates : BeginCycle(p, gate)
    \/ \E q \in Procs : Signal(q)
    \/ \E p \in Procs : Exit(p)
    \/ \E p \in Procs : Step(p)

SpecProc == InitProc /\ [][NextProc]_vars

---------------------------------------------------------------------------
(* Time resolution on machines of several time zones *)

MaxDay == 12     \* raw times name the seconds and the days 0..MaxDay

\* Seconds east of UTC of the machine's local time zone
UtcOffsets == {-28800, 0, 3600, 28800}

\* start_time / end_time of an event: a timestamp, a date, both or neither
RawTimes ==
    {[timestamp |-> n] : n \in 0..MaxDay} \cup {[date |-> d] : d \in 0..MaxDay}
       \cup {[timestamp |-> 1, date |-> 0], EmptyDict}

InitTime ==
    /\ calendar_records = <<>>
    /\ now = 0
    /\ utc_offset \in UtcOffsets
    /\ batch_size = 1
    /\ pc = [p \in Procs |-> "idle"]
    /\ pending_records = [p \in Procs |-> <<>>]
    /\ chunk_start = [p \in Procs |-> 0]
    /\ event_ids = [p \in Procs |-> <<>>]
    /\ mark_index = [p \in Procs |-> 0]
    /\ result = [p \in Procs |-> NULL]
    /\ counts = [p \in Procs |-> NoCycle]
    /\ sent = [p \in Procs |-> <<>>]
    /\ outcomes = [p \in Procs |-> <<>>]
    /\ cur = [p \in Procs |-> NoEvent]
    /\ lastIngest = [e \in EventIds |-> NoEvent]
    /\ trail = [e \in EventIds |-> "none"]
    /\ upload_logs = <<>>
    /\ answer = NoAnswer
    /\ pid_file = Some(1)
    /\ proc = [p \in Procs |-> IF p = 1 THEN Scheduler("scheduler.py") ELSE NotStarted]

\* A call of _extract_timestamp(time_data)
ResolveTime(time_data) ==
    /\ answer' = [call |-> "_extract_timestamp", time_data |-> time_data,
                  ret |-> ExtractTimestamp(time_data)]
    /\ UNCHANGED <<calendar_records, now, config, upload_logs, pid_file, proc, pc, cycle, cur,
                   history>>

NextTime == \E time_data \in RawTimes : ResolveTime(time_data)

SpecTime == InitTime /\ [][NextTime]_vars

---------------------------------------------------------------------------
(* Cycles over events whose times are missing or zero *)

\* Items of a calendar file: an end at the epoch, no end, no start
TimedContents ==
    {[summary |-> "A", start_time |-> [timestamp |-> 1], end_time |-> [timestamp |-> 0],
      status |-> "confirmed"],
     [summary |-> "A", start_time |-> [timestamp |-> 1], end_time |-> EmptyDict,
      status |-> "confirmed"],
     [summary |-> "A", start_time |-> EmptyDict, end_time |-> [timestamp |-> 2],
      status |-> "confirmed"]}

TimedEvents == {WithId(c, id) : c \in TimedContents, id \in EventIds}

NextPayload ==
    \/ \E gate \in Gates : StartCycle(1, gate)
    \/ \E file_path \in OneCalendar, event \in TimedEvents, t \in Clock :
          IngestEvent(1, file_path, event, t)
    \/ \E pending \in GetPendingRecords(calendar_records, NULL, NULL) :
          SelectPending(1, pending)
    \/ \E outcome \in TransportOutcomes : Transport(1, outcome)
    \/ \E t \in Clock : MarkRecord(1, t)
    \/ Report(1)

SpecPayload == Init /\ [][NextPayload]_vars

---------------------------------------------------------------------------
(* The mark operations, called on a store left by earlier cycles *)

\* A call of mark_as_uploaded(event_id, upload_result)
MarkUploaded(event_id, upload_result, t) ==
    /\ now' = t
    /\ calendar_records' = MarkAsUploaded(calendar_records, event_id, upload_result, t).rows
    /\ answer' = [call |-> "mark_as_uploaded",
                  ret |-> MarkAsUploaded(calendar_records, event_id, upload_result, t).ret]
    /\ UNCHANGED <<config, upload_logs, pid_file, proc, pc, cycle, cur, history>>

\* A call of mark_as_failed(event_id, error_message)
MarkFailed(event_id, error_message, t) ==
    /\ now' = t
    /\ calendar_records' = MarkAsFailed(calendar_records, event_id, error_message, t).rows
    /\ answer' = [call |-> "mark_as_failed",
                  ret |-> MarkAsFailed(calendar_records, event_id, error_message, t).ret]
    /\ UNCHANGED <<config, upload_logs, pid_file, proc, pc, cycle, cur, history>>

InitMark == \E rows \in Stores : Quiet(rows)

NextMark ==
    \/ \E event_id \in RecordIds, t \in Clock :
          MarkUploaded(event_id, Text("batch upload succeeded"), t)
    \/ \E event_id \in RecordIds, t \in Clock :
          MarkFailed(event_id, Text("network error"), t)

SpecMark == InitMark /\ [][NextMark]_vars

---------------------------------------------------------------------------
(* The upload log, written by calls of log_upload_batch *)

MaxResults == 2  \* results of one log_upload_batch call
MaxLogRows == 3  \* rows of upload_logs

BatchIds == {"batch_1", "batch_2"}

\* One entry of upload_results: complete, or without its status
LogResults ==
    {[event_id |-> 1, status |-> "uploaded", result |-> Some("ok")],
     [event_id |-> 1, status |-> "failed", error |-> Some("network error")],
     [event_id |-> 1]}

ResultLists == UNION {[1..n -> LogResults] : n \in 0..MaxResults}

\* A call of log_upload_batch(batch_id, upload_results)
LogBatch(batch_id, upload_results, fault, t) ==
    /\ Len(upload_logs) + Len(upload_results) <= MaxLogRows
    /\ now' = t
    /\ upload_logs' = LogUploadBatch(upload_logs, batch_id, upload_results, fault, t).logs
    /\ answer' = [call |-> "log_upload_batch",
                  ret |-> LogUploadBatch(upload_logs, batch_id, upload_results, fault, t).ret]
    /\ UNCHANGED <<calendar_records, config, pid_file, proc, pc, cycle, cur, history>>

InitLog == \E rows \in {r \in Stores : Len(r) <= 1} : Quiet(rows)

NextLog ==
    \E batch_id \in BatchIds, upload_results \in ResultLists, t \in Clock :
       \E fault \in 0..(Len(upload_results) + 1) :
          LogBatch(batch_id, upload_results, fault, t)

SpecLog == InitLog /\ [][NextLog]_vars

---------------------------------------------------------------------------
(* add_or_update_record called again and again for the same event_id, each
   time with other event data, another person or another calendar file *)

\* The five fields _generate_record_hash reads, each with the default of its
\* event_data.get
KeyFields == {"summary", "start_time", "end_time", "status", "description"}
KeyDefault(field) == IF field \in {"start_time", "end_time"} THEN EmptyDict ELSE ""

\* Raw events that differ from the first one in exactly one field: one of the
\* five key fields, or a field the fingerprint does not read (location)
ChangeContents ==
    LET base == [summary |-> "A", start_time |-> [timestamp |-> 1],
                 end_time |-> [timestamp |-> 2], status |-> "confirmed",
                 description |-> "d"]
    IN {base,
        [base EXCEPT !.summary = "B"],
        [base EXCEPT !.start_time = [date |-> 0]],
        [base EXCEPT !.end_time = EmptyDict],
        [base EXCEPT !.status = "tentative"],
        [base EXCEPT !.description = ""],
        [k \in DOMAIN base \ {"description"} |-> base[k]],
        [k \in DOMAIN base \cup {"location"} |->
            IF k = "location" THEN "room 1" ELSE base[k]]}

\* All under one event_id
ChangeEvents == {WithId(c, 1) : c \in ChangeContents}

\* A call of add_or_update_record(event_data, person_name, calendar_file).
\* cur[1] keeps the arguments of the call and, as history, the event data the
\* call before gave for the same event_id
AddOrUpdate(event_data, person_name, calendar_file, t) ==
    /\ now' = t
    /\ LET op == AddOrUpdateRecord(calendar_records, event_data, person_name,
                                   calendar_file, t)
       IN /\ calendar_records' = op.rows
          /\ answer' = [call |-> "add_or_update_record", ret |-> op.ret]
    /\ cur' = [cur EXCEPT ![1] = [event_data |-> event_data,
                                  person_name |-> person_name,
                                  calendar_file |-> calendar_file,
                                  previous |-> lastIngest[event_data.event_id]]]
    /\ lastIngest' = [lastIngest EXCEPT ![event_data.event_id] = event_data]
    /\ trail' = IngestTrail(event_data)
    /\ UNCHANGED <<config, upload_logs, pid_file, proc, pc, cycle>>

NextChange ==
    \/ \E event_data \in ChangeEvents, person_name \in Persons,
          calendar_file \in CalendarFiles, t \in Clock :
          AddOrUpdate(event_data, person_name, calendar_file, t)
    \/ \E t \in Clock : MarkUploaded(1, Text("batch upload succeeded"), t)

InitChange == Init /\ batch_size = 1

SpecChange == InitChange /\ [][NextChange]_vars

---------------------------------------------------------------------------
(* Two processes, each running one mutating operation of the store on the
   same event_id *)

\* The event data the two processes give for event_id 1
SharedEvents == {WithId(c, 1) : c \in {d \in EventContents : d.status = "confirmed"}}

\* The calls a process can make
StoreCalls ==
    {[call |-> "add_or_update_record", event_data |-> e, calendar_file |-> f] :
        e \in SharedEvents, f \in CalendarFiles}
    \cup {[call |-> c] : c \in {"mark_as_uploaded", "mark_as_failed",
                                 "reset_failed_records", "reset_all_records_to_pending"}}

\* The rows after the call has run without interruption at time t
Apply(rows, c, t) ==
    IF c.call = "add_or_update_record"
    THEN AddOrUpdateRecord(rows, c.event_data, PersonName(c.calendar_file),
                           c.calendar_file, t).rows
    ELSE IF c.call = "mark_as_uploaded"
    THEN MarkAsUploaded(rows, 1, Text("batch upload succeeded"), t).rows
    ELSE IF c.call = "mark_as_failed"
    THEN MarkAsFailed(rows, 1, Text("network error"), t).rows
    ELSE IF c.call = "reset_failed_records"
    THEN ResetFailedRecords(rows, t).rows
    ELSE ResetAllRecordsToPending(rows, t).rows

\* What cur[p] holds of a call: the call, the existing_record fetched by
\* add_or_update_record, whether the call has returned and, as history, the rows
\* when it started and whether it started before the other process's call
CallState(p, c, existing_record, done) ==
    [call |-> c, existing_record |-> existing_record, done |-> done,
     before |-> calendar_records,
     first |-> \A q \in Procs \ {p} : cur[q] = NoEvent]

\* add_or_update_record up to fetchone(): the SELECT is a statement of its own,
\* no transaction is open when it has been read
SelectFor(p, c) ==
    /\ cur[p] = NoEvent
    /\ c.call = "add_or_update_record"
    /\ cur' = [cur EXCEPT
                 ![p] = CallState(p, c, SelectExisting(calendar_records, c.event_data.event_id),
                                  FALSE)]
    /\ lastIngest' = [lastIngest EXCEPT ![c.event_data.event_id] = c.event_data]
    /\ trail' = IngestTrail(c.event_data)
    /\ UNCHANGED <<calendar_records, now, config, unwritten, pc, cycle>>

\* The rest of add_or_update_record: the UPDATE or INSERT and its commit are one
\* write transaction; the IntegrityError of an INSERT is caught
WriteFor(p, t) ==
    /\ cur[p] # NoEvent
    /\ ~cur[p].done
    /\ now' = t
    /\ calendar_records' =
          AddWrite(calendar_records, cur[p].existing_record, cur[p].call.event_data,
                   PersonName(cur[p].call.calendar_file), cur[p].call.calendar_file, t).rows
    /\ cur' = [cur EXCEPT ![p].done = TRUE]
    /\ UNCHANGED <<config, unwritten, pc, cycle, history>>

\* mark_as_uploaded, mark_as_failed, reset_failed_records or
\* reset_all_records_to_pending: one UPDATE and its commit
UpdateFor(p, c, t) ==
    /\ cur[p] = NoEvent
    /\ c.call # "add_or_update_record"
    /\ now' = t
    /\ calendar_records' = Apply(calendar_records, c, t)
    /\ cur' = [cur EXCEPT ![p] = CallState(p, c, NULL, TRUE)]
    /\ UNCHANGED <<config, unwritten, pc, cycle, history>>

InitAtomic == \E rows \in {r \in Stores : Len(r) <= 1} : Quiet(rows)

NextAtomic ==
    \/ \E p \in Procs, c \in StoreCalls : SelectFor(p, c)
    \/ \E p \in Procs, t \in Clock : WriteFor(p, t)
    \/ \E p \in Procs, c \in StoreCalls, t \in Clock : UpdateFor(p, c, t)

SpecAtomic == InitAtomic /\ [][NextAtomic]_vars

---------------------------------------------------------------------------
(* reset_failed_records called on a store left by earlier cycles, between mark
   calls and writes of the upload log *)

\* A call of reset_failed_records()
ResetFailedCall(t) ==
    /\ now' = t
    /\ calendar_records' = ResetFailedRecords(calendar_records, t).rows
    /\ answer' = [call |-> "reset_failed_records",
                  reset_count |-> ResetFailedRecords(calendar_records, t).ret]
    /\ trail' = ResetTrail({"failed"})
    /\ UNCHANGED <<config, upload_logs, pid_file, proc, pc, cycle, cur, lastIngest>>

InitReset == \E rows \in {r \in Stores : Len(r) <= 3} : Quiet(rows)

NextReset ==
    \/ \E t \in Clock : ResetFailedCall(t)
    \/ \E event_id \in 1..3, t \in Clock : MarkFailed(event_id, Text("network error"), t)
    \/ \E upload_results \in ResultLists, t \in Clock :
          LogBatch("batch_1", upload_results, 0, t)

SpecReset == InitReset /\ [][NextReset]_vars

---------------------------------------------------------------------------
(* Two cycles in a row over the same source data *)

MaxSource == 2   \* events of the source data, over all calendar files

\* An event of the source data: the calendar file it is in and its raw data
SourceItems == [file_path : CalendarFiles, event : {e \in Events : HasEventId(e)}]

\* The source data in the order _load_calendar_records goes through them
Sources == UNION {[1..n -> SourceItems] : n \in 1..MaxSource}

\* The event loops of the cycle have gone through all the source data
SourceRead == cur[1] # NoEvent /\ cur[1].index = Len(cur[1].source)

\* The first cycle starts on a new store. cur[1] holds the source data, the
\* position of the event loops, which of the two cycles runs, whether every
\* record was uploaded when it started, and how many add_or_update_record calls
\* of the cycle returned True
OpenSource(source) ==
    /\ Idle
    /\ cur[1] = NoEvent
    /\ pc' = [pc EXCEPT ![1] = "load"]
    /\ cur' = [cur EXCEPT ![1] = [source |-> source, index |-> 0, round |-> 1,
                                  settled |-> FALSE, written |-> 0]]
    /\ UNCHANGED <<calendar_records, now, config, unwritten, cycle, history>>

\* The second cycle starts, over the same source data
Reopen ==
    /\ Idle
    /\ cur[1] # NoEvent
    /\ cur[1].round = 1
    /\ pc' = [pc EXCEPT ![1] = "load"]
    /\ cur' = [cur EXCEPT ![1].index = 0, ![1].round = 2, ![1].written = 0,
                          ![1].settled = \A i \in DOMAIN calendar_records :
                                            calendar_records[i].upload_status = "uploaded"]
    /\ UNCHANGED <<calendar_records, now, config, unwritten, cycle, history>>

\* One iteration of the event loop of _load_calendar_records
LoadItem(t) ==
    /\ cur[1] # NoEvent
    /\ ~SourceRead
    /\ LET item == cur[1].source[cur[1].index + 1]
           added == /\ Get(item.event, "status", "") # "cancelled"
                    /\ AddOrUpdateRecord(calendar_records, item.event,
                                         PersonName(item.file_path), item.file_path, t).ret
       IN /\ LoadEvent(1, item.file_path, item.event, t)
          /\ cur' = [cur EXCEPT ![1].index = @ + 1,
                                ![1].written = IF added THEN @ + 1 ELSE @]

\* The upload phase starts when the source data are read
SelectAfterLoad(pending) ==
    /\ SourceRead
    /\ SelectPending(1, pending)

NextQuiet ==
    \/ \E source \in Sources : OpenSource(source)
    \/ Reopen
    \/ \E t \in Clock : LoadItem(t)
    \/ \E pending \in GetPendingRecords(calendar_records, NULL, NULL) :
          SelectAfterLoad(pending)
    \/ \E outcome \in TransportOutcomes : Transport(1, outcome)
    \/ \E t \in Clock : MarkRecord(1, t)
    \/ Report(1)

SpecQuiet == Init /\ [][NextQuiet]_vars

---------------------------------------------------------------------------
(* A cycle of process 1 while process 2 goes through its ingest phase *)

\* execute_main_task of process p passes its gates, whatever the other process does
Enter(p) ==
    /\ pc[p] = "idle"
    /\ pc' = [pc EXCEPT ![p] = "load"]
    /\ UNCHANGED <<calendar_records, now, config, unwritten, cycle, cur, history>>

NextLost ==
    \/ \E p \in Procs : Enter(p)
    \/ \E p \in Procs, file_path \in OneCalendar, event \in SharedEvents, t \in Clock :
          IngestEvent(p, file_path, event, t)
    \/ \E pending \in GetPendingRecords(calendar_records, NULL, NULL) :
          SelectPending(1, pending)
    \/ \E outcome \in TransportOutcomes : Transport(1, outcome)
    \/ \E t \in Clock : MarkRecord(1, t)
    \/ Report(1)

SpecLost == Init /\ [][NextLost]_vars

---------------------------------------------------------------------------
(* Cycles whose gates are evaluated: the weekday, the token, the fetch *)

\* datetime.weekday(): Monday is 0, Sunday 6
Weekdays == 0..6

\* CalendarScheduler.is_workday
IsWorkday(weekday) == weekday < 5

\* Faulty variant: a failed fetch does not end the cycle
GateResult_FetchIgnored(force_execute, skip_auth, weekday, token_ok, fetch_ok) ==
    IF ~force_execute /\ ~IsWorkday(weekday) THEN "weekend"
    ELSE IF ~skip_auth /\ ~token_ok THEN "no_token"
    ELSE "pass"

\* execute_main_task up to the ingest phase: which of its returns is taken, given
\* its arguments, the day, and what get_fresh_token and fetch_calendar_data return
GateResult(force_execute, skip_auth, weekday, token_ok, fetch_ok) ==
    IF ~force_execute /\ ~IsWorkday(weekday) THEN "weekend"
    ELSE IF ~skip_auth /\ ~token_ok THEN "no_token"
    ELSE IF ~fetch_ok THEN "fetch_failed"
    ELSE "pass"

\* A call of execute_main_task(force_execute, skip_auth) up to the ingest phase.
\* cur[p] keeps, as history, which return was taken
BeginTask(p, force_execute, skip_auth, weekday, token_ok, fetch_ok) ==
    /\ Idle
    /\ pc' = [pc EXCEPT
                ![p] = IF GateResult(force_execute, skip_auth, weekday, token_ok, fetch_ok)
                          = "pass"
                       THEN "load" ELSE "idle"]
    /\ cur' = [cur EXCEPT
                 ![p] = [gate |-> GateResult(force_execute, skip_auth, weekday, token_ok,
                                             fetch_ok)]]
    /\ UNCHANGED <<calendar_records, now, config, unwritten, cycle, history>>

\* The first entry of the upload log is written by a tool of its own, between cycles
LogBetweenCycles(t) ==
    /\ Idle
    /\ upload_logs = <<>>
    /\ LogBatch("batch_1", <<[event_id |-> 1, status |-> "uploaded", result |-> Some("ok")]>>,
                0, t)

NextGate ==
    \/ \E force_execute \in BOOLEAN, skip_auth \in BOOLEAN, weekday \in Weekdays,
          token_ok \in BOOLEAN, fetch_ok \in BOOLEAN :
          BeginTask(1, force_execute, skip_auth, weekday, token_ok, fetch_ok)
    \/ \E file_path \in OneCalendar, event \in SharedEvents, t \in Clock :
          IngestEvent(1, file_path, event, t)
    \/ \E pending \in GetPendingRecords(calendar_records, NULL, NULL) :
          SelectPending(1, pending)
    \/ \E outcome \in TransportOutcomes : Transport(1, outcome)
    \/ \E t \in Clock : MarkRecord(1, t)
    \/ Report(1)
    \/ \E t \in Clock : LogBetweenCycles(t)

SpecGate == Init /\ [][NextGate]_vars

---------------------------------------------------------------------------
(* lark_token.py: the token manager of a process and its cache *)

\* config.py: seconds a tenant token is taken to be valid
TOKEN_EXPIRE_TIME == 7200

\* The instants (seconds of time.time()) at which the token is asked for
TokenTimes == {0, 1, 6899, 6900, 6901, 6902, 13799, 13800, 13801, 20700}

\* What requests.post and response.json() meet: an exception of the request, a
\* status other than 200, a body that is no JSON, a body with an error code, a
\* body with code 0 and a token, a body with code 0 and no token
TokenResponses ==
    {[raises |-> TRUE],
     [status_code |-> 500, body |-> [code |-> 0, tenant_access_token |-> "t1"]],
     [status_code |-> 200, json_raises |-> TRUE],
     [status_code |-> 200, body |-> [code |-> 10003]],
     [status_code |-> 200, body |-> [code |-> 0, tenant_access_token |-> "t1"]],
     [status_code |-> 200, body |-> [code |-> 0, tenant_access_token |-> "t2"]],
     [status_code |-> 200, body |-> [code |-> 0]]}

\* LarkTokenManager.__init__; obtained is history: when the cached token was
\* asked for
NewTokenManager == [cached_token |-> NULL, token_expire_time |-> 0, obtained |-> 0]

\* `self._cached_token and ...`: None and the empty string are falsy
HasCachedToken(manager) ==
    manager.cached_token # NULL /\ manager.cached_token # Some("")

\* What a call that goes to the network leaves and returns
RequestToken(manager, current_time, response) ==
    IF "raises" \in DOMAIN response \/ "json_raises" \in DOMAIN response
    THEN [manager |-> manager, ret |-> NULL, requested |-> TRUE]
    ELSE IF response.status_code = 200 /\ Get(response.body, "code", -1) = 0
    THEN LET token == IF "tenant_access_token" \in DOMAIN response.body
                      THEN Some(response.body.tenant_access_token) ELSE NULL
         IN [manager |-> [cached_token |-> token,
                          token_expire_time |-> current_time + TOKEN_EXPIRE_TIME - 300,
                          obtained |-> current_time],
             ret |-> token, requested |-> TRUE]
    ELSE [manager |-> manager, ret |-> NULL, requested |-> TRUE]

\* Faulty variant: the cached token is still returned at its expiry time
GetTenantAccessToken_AtExpiry(manager, current_time, response) ==
    IF HasCachedToken(manager) /\ current_time <= manager.token_expire_time
    THEN [manager |-> manager, ret |-> manager.cached_token, requested |-> FALSE]
    ELSE RequestToken(manager, current_time, response)

\* LarkTokenManager.get_tenant_access_token called at current_time, the peer
\* answering with response if it is asked
GetTenantAccessToken(manager, current_time, response) ==
    IF HasCachedToken(manager) /\ current_time < manager.token_expire_time
    THEN [manager |-> manager, ret |-> manager.cached_token, requested |-> FALSE]
    ELSE RequestToken(manager, current_time, response)

\* A call of get_tenant_access_token by process 1, whose token manager is cur[1]
TokenCall(t, response) ==
    /\ t >= now
    /\ now' = t
    /\ LET call == GetTenantAccessToken(cur[1], t, response)
       IN /\ cur' = [cur EXCEPT ![1] = call.manager]
          /\ answer' = [call |-> "get_tenant_access_token", token |-> call.ret,
                        requested |-> call.requested]
    /\ UNCHANGED <<calendar_records, config, upload_logs, pid_file, proc, pc, cycle, history>>

InitToken ==
    /\ calendar_records = <<>>
    /\ now = 0
    /\ utc_offset = 0
    /\ batch_size = 1
    /\ pc = [p \in Procs |-> "idle"]
    /\ pending_records = [p \in Procs |-> <<>>]
    /\ chunk_start = [p \in Procs |-> 0]
    /\ event_ids = [p \in Procs |-> <<>>]
    /\ mark_index = [p \in Procs |-> 0]
    /\ result = [p \in Procs |-> NULL]
    /\ counts = [p \in Procs |-> NoCycle]
    /\ sent = [p \in Procs |-> <<>>]
    /\ outcomes = [p \in Procs |-> <<>>]
    /\ cur = [p \in Procs |-> NewTokenManager]
    /\ lastIngest = [e \in EventIds |-> NoEvent]
    /\ trail = [e \in EventIds |-> "none"]
    /\ upload_logs = <<>>
    /\ answer = NoAnswer
    /\ pid_file = Some(1)
    /\ proc = [p \in Procs |-> IF p = 1 THEN Scheduler("scheduler.py") ELSE NotStarted]

NextToken == \E t \in TokenTimes, response \in TokenResponses : TokenCall(t, response)

SpecToken == InitToken /\ [][NextToken]_vars

---------------------------------------------------------------------------
(* Properties of the single-flow specification *)

RowOf(rows, event_id) == rows[Min(Matching(rows, event_id))]

IdsOf(records) == {records[k].event_id : k \in 1..Len(records)}

Uploaded(e) == trail[e] \in {"confirmed", "retried"}

\* A call of add_or_update_record made by the ingest phase
IngestCall(file_path, event, t) ==
    /\ IngestEvent(1, file_path, event, t)
    /\ Get(event, "status", "") # "cancelled"
    /\ HasEventId(event)

\* C1: a record marked uploaded after a successful transport call is in no later
\* transport payload, unless an ingestion since found its fingerprint changed or
\* an administrative reset or clear came in between.
C1_NoResubmission ==
    [][\A outcome \in TransportOutcomes :
          Transport(1, outcome) =>
             \A k \in 1..Len(sent'[1]) : \A j \in 1..Len(sent'[1][k]) :
                k = Len(sent'[1]) => ~Uploaded(sent'[1][k][j].event_id)]_vars

\* A chunk is in flight while a record uploaded by an earlier cycle is tracked
C1_Witness ==
    /\ pc[1] = "mark"
    /\ \E e \in EventIds :
          /\ Uploaded(e)
          /\ StatusOf(calendar_records, e) = "uploaded"
          /\ e \notin IdsOf(pending_records[1])

\* C2: a second add_or_update_record call with the event data of the last call
\* for that event_id returns False and leaves every column of every row as it
\* was, whatever the record's status.
C2_UpsertIdempotent ==
    [][\A file_path \in CalendarFiles, event \in Events, t \in Clock :
          (IngestCall(file_path, event, t) /\ lastIngest[event.event_id] = event)
          => /\ ~AddOrUpdateRecord(calendar_records, event, PersonName(file_path),
                                   file_path, t).ret
             /\ calendar_records' = calendar_records]_vars

\* The ingest phase runs over a record that was uploaded at an earlier time
C2_Witness ==
    /\ pc[1] = "load"
    /\ \E e \in EventIds :
          /\ lastIngest[e] # NoEvent
          /\ StatusOf(calendar_records, e) = "uploaded"
          /\ RowOf(calendar_records, e).updated_time < now
          /\ \E f \in EventIds \ {e} : StatusOf(calendar_records, f) = "failed"

\* C3: add_or_update_record for an uploaded record with a summary other than the
\* one last ingested makes the record pending, clears upload_time and
\* upload_result, and returns True.
C3_ChangeDetection ==
    [][\A file_path \in CalendarFiles, event \in Events, t \in Clock :
          (/\ IngestCall(file_path, event, t)
           /\ StatusOf(calendar_records, event.event_id) = "uploaded"
           /\ lastIngest[event.event_id] # NoEvent
           /\ Get(event, "summary", "") # Get(lastIngest[event.event_id], "summary", ""))
          => /\ AddOrUpdateRecord(calendar_records, event, PersonName(file_path),
                                  file_path, t).ret
             /\ StatusOf(calendar_records', event.event_id) = "pending"
             /\ RowOf(calendar_records', event.event_id).upload_time = NULL
             /\ RowOf(calendar_records', event.event_id).upload_result = NULL]_vars

\* An uploaded record was re-ingested with another summary and is pending again
C3_Witness ==
    \E e \in EventIds :
        /\ trail[e] = "changed_uploaded"
        /\ StatusOf(calendar_records, e) = "pending"
        /\ RowOf(calendar_records, e).upload_time = NULL
        /\ RowOf(calendar_records, e).summary = Some(lastIngest[e].summary)

\* C4: a record goes from uploaded to pending only in an add_or_update_record
\* call whose computed fingerprint differs from the stored one, or in
\* reset_all_records_to_pending.
C4_DemotionOnlyByChangeOrResetAll ==
    [][\A e \in EventIds :
          (/\ StatusOf(calendar_records, e) = "uploaded"
           /\ StatusOf(calendar_records', e) = "pending")
          => \/ \E file_path \in CalendarFiles, event \in Events, t \in Clock :
                  /\ IngestCall(file_path, event, t)
                  /\ event.event_id = e
                  /\ GenerateRecordHash(event) # RowOf(calendar_records, e).record_hash
             \/ \E t \in Clock : ResetAll(t)]_vars

\* An uploaded record was returned to pending by reset_all_records_to_pending
C4_Witness ==
    \E e \in EventIds :
        /\ trail[e] = "reset_uploaded"
        /\ StatusOf(calendar_records, e) = "pending"

---------------------------------------------------------------------------
(* Properties of the two-process specification *)

\* C5: no two rows of calendar_records have the same event_id, whatever events
\* are ingested, from whichever calendar files, one call after another or by two
\* processes at once.
C5_EventIdUnique ==
    \A i, j \in 1..Len(calendar_records) :
        calendar_records[i].event_id = calendar_records[j].event_id => i = j

\* Two calls found no row for the same event_id; one inserted it and the INSERT
\* of the other was rejected
C5_Witness ==
    \E p \in Procs :
        /\ cur[p] # NoEvent
        /\ ~InCall(p)
        /\ cur[p].error = "IntegrityError"
        /\ ~cur[p].ret
        /\ Len(calendar_records) = NumEvents

---------------------------------------------------------------------------
(* Properties of the upload phase *)

Max(a, b) == IF a > b THEN a ELSE b

\* The chunk (counted from 1) that holds position j of the pending sequence
ChunkOf(j) == (j - 1) \div batch_size + 1

\* Chunk k of the running cycle has been submitted and all its records marked
Marked(k) == k < Len(outcomes[1]) \/ (k = Len(outcomes[1]) /\ pc[1] # "mark")

InUploadPhase == pc[1] \in {"upload", "mark", "report"}

C7_BatchPartition ==
    InUploadPhase =>
        LET n == Len(pending_records[1])
            b == batch_size
            calls == Len(sent[1])
        IN /\ \A k \in 0..(calls - 1) :
                 LET last == IF (k + 1) * b < n THEN (k + 1) * b ELSE n
                 IN /\ Len(sent[1][k + 1]) = Max(last - k * b, 0)
                    /\ \A j \in 1..(last - k * b) :
                          sent[1][k + 1][j] = UploadRecord(pending_records[1][k * b + j])
           /\ calls * b < n + b
           /\ pc[1] = "report" => calls * b >= n

\* A cycle ends after two calls, the first failed, the last with a short chunk
C7_Witness ==
    /\ pc[1] = "report"
    /\ Len(sent[1]) = 2
    /\ Len(pending_records[1]) = 3
    /\ ~Succeeded(outcomes[1][1])
    /\ Len(sent[1][2]) = 1

\* The message batch_upload_records leaves for a failed call
FailureMessage(outcome) ==
    IF outcome.tenant_token # NULL /\ "raises" \notin DOMAIN outcome
       /\ outcome.status_code = 200
    THEN outcome.body.msg
    ELSE Text("network error")

\* C8: a record of a chunk is marked uploaded only when the transport answered
\* with application code 0; without a token, on a request exception, on a status
\* other than 200 and on a non-zero code it is marked failed with the message
\* taken from the answer, and after the last record of a chunk the cycle goes
\* on to the next chunk if there is one.
C8_OnlyCodeZeroUploads ==
    [][\A t \in Clock :
          MarkRecord(1, t) =>
             LET e == event_ids[1][mark_index[1] + 1]
                 outcome == outcomes[1][Len(outcomes[1])]
                 row == RowOf(calendar_records', e)
             IN /\ Succeeded(outcome) => row.upload_status = "uploaded"
                /\ ~Succeeded(outcome) =>
                      /\ row.upload_status = "failed"
                      /\ row.upload_result = Some(<<"FAILED: ">> \o FailureMessage(outcome))
                /\ (/\ mark_index[1] + 1 = Len(event_ids[1])
                    /\ chunk_start[1] + batch_size < Len(pending_records[1]))
                   => pc'[1] = "upload"]_vars

\* After a chunk that the service answered with a non-zero code, and whose
\* records are failed, the next chunk was submitted
C8_Witness ==
    /\ Len(outcomes[1]) = 2
    /\ outcomes[1][1].tenant_token # NULL
    /\ "raises" \notin DOMAIN outcomes[1][1]
    /\ outcomes[1][1].status_code = 200
    /\ outcomes[1][1].body.code # 0
    /\ \A j \in 1..Len(sent[1][1]) :
          StatusOf(calendar_records, sent[1][1][j].event_id) = "failed"

---------------------------------------------------------------------------
(* Properties of the status life cycle *)

PersonFilters == {NULL} \cup {Some(n) : n \in Persons}
Limits == {NULL} \cup {Some(l) : l \in 1..NumEvents}

\* Every sequence a get_pending_records call on `rows` can return
PendingResults(rows) ==
    UNION {GetPendingRecords(rows, person_name, limit) :
              person_name \in PersonFilters, limit \in Limits}

\* C9: a failed record is in no get_pending_records result and in no transport
\* payload; after reset_failed_records it is in the result of
\* get_pending_records(), and when the transport call of its chunk then succeeds
\* it is left uploaded.
C9_RetryPath ==
    [][/\ \A e \in EventIds : trail[e] = "failed" =>
             /\ StatusOf(calendar_records, e) = "failed"
             /\ \A r \in PendingResults(calendar_records) : e \notin IdsOf(r)
       /\ \A outcome \in TransportOutcomes : Transport(1, outcome) =>
             \A e \in EventIds : trail[e] = "failed" =>
                \A j \in 1..Len(sent'[1][Len(sent'[1])]) :
                   sent'[1][Len(sent'[1])][j].event_id # e
       /\ \A t \in Clock : ResetFailed(t) =>
             \A e \in EventIds : trail[e] = "failed" =>
                \A r \in GetPendingRecords(calendar_records', NULL, NULL) : e \in IdsOf(r)
       /\ \A t \in Clock : MarkRecord(1, t) =>
             LET e == event_ids[1][mark_index[1] + 1]
             IN (trail[e] = "retry" /\ Succeeded(outcomes[1][Len(outcomes[1])]))
                => StatusOf(calendar_records', e) = "uploaded"]_vars

\* A record failed, was reset by reset_failed_records and was then uploaded
C9_Witness ==
    \E e \in EventIds :
        /\ trail[e] = "retried"
        /\ StatusOf(calendar_records, e) = "uploaded"

\* The step marks record e after a transport call that succeeded / failed
MarkedAfter(e, success) ==
    \E t \in Clock :
        /\ MarkRecord(1, t)
        /\ event_ids[1][mark_index[1] + 1] = e
        /\ Succeeded(outcomes[1][Len(outcomes[1])]) = success

\* The step re-ingests event_id e with a fingerprint other than the stored one
ReingestedChanged(e) ==
    \E file_path \in CalendarFiles, event \in Events, t \in Clock :
        /\ IngestCall(file_path, event, t)
        /\ event.event_id = e
        /\ GenerateRecordHash(event) # RowOf(calendar_records, e).record_hash

AdminReset == \E t \in Clock : ResetFailed(t) \/ ResetAll(t)

\* The status of record e changes in the step
StatusChange(e, from, to) ==
    /\ StatusOf(calendar_records, e) = from
    /\ StatusOf(calendar_records', e) = to

Statuses == {"pending", "uploaded", "failed"}

\* C10 as stated: every change of a record's upload_status is pending to
\* uploaded (transport success), pending to failed (transport failure), failed
\* to uploaded (transport success on retry), failed to pending (administrative
\* reset), or uploaded to pending (content change on re-ingest, or
\* reset_all_records_to_pending).
C10_AsStated ==
    [][\A e \in EventIds : \A from, to \in Statuses :
          (from # to /\ StatusChange(e, from, to)) =>
             \/ from = "pending" /\ to = "uploaded" /\ MarkedAfter(e, TRUE)
             \/ from = "pending" /\ to = "failed" /\ MarkedAfter(e, FALSE)
             \/ from = "failed" /\ to = "uploaded" /\ MarkedAfter(e, TRUE)
             \/ from = "failed" /\ to = "pending" /\ AdminReset
             \/ from = "uploaded" /\ to = "pending"
                /\ (ReingestedChanged(e) \/ \E t \in Clock : ResetAll(t))]_vars

\* C10 amended: the changes are those stated and, besides, failed to pending on
\* a content change on re-ingest.
C10_StatusChanges ==
    [][\A e \in EventIds : \A from, to \in Statuses :
          (from # to /\ StatusChange(e, from, to)) =>
             \/ from = "pending" /\ to = "uploaded" /\ MarkedAfter(e, TRUE)
             \/ from = "pending" /\ to = "failed" /\ MarkedAfter(e, FALSE)
             \/ from = "failed" /\ to = "uploaded" /\ MarkedAfter(e, TRUE)
             \/ from = "failed" /\ to = "pending" /\ (AdminReset \/ ReingestedChanged(e))
             \/ from = "uploaded" /\ to = "pending"
                /\ (ReingestedChanged(e) \/ \E t \in Clock : ResetAll(t))]_vars

\* A failed record was re-ingested with changed content and is pending again
C10_Witness ==
    \E e \in EventIds :
        /\ trail[e] = "changed_failed"
        /\ StatusOf(calendar_records, e) = "pending"
        /\ RowOf(calendar_records, e).upload_result = NULL

---------------------------------------------------------------------------
(* Properties of the queries *)

\* The rows get_pending_records is to choose from: the pending ones, of the
\* given person when one is given (an empty name counting as none given)
Wanted(person_name) ==
    {i \in DOMAIN calendar_records :
        /\ calendar_records[i].upload_status = "pending"
        /\ (person_name \notin {NULL, Some("")}
            => calendar_records[i].person_name = Val(person_name))}

\* C13 as stated: get_pending_records(person_name, limit) returns exactly the
\* pending records (of the given person when one is given) in non-decreasing
\* created_time order, and at most limit of them when a limit is given.
C13_AsStated ==
    (answer # NoAnswer /\ answer.call = "get_pending_records") =>
        LET ret == answer.ret
            wanted == Wanted(answer.person_name)
            cap == IF answer.limit # NULL /\ Val(answer.limit) < Cardinality(wanted)
                   THEN Val(answer.limit) ELSE Cardinality(wanted)
        IN /\ Len(ret) = cap
           /\ \A k \in 1..Len(ret) : \E i \in wanted : ret[k] = calendar_records[i]
           /\ \A a, b \in 1..Len(ret) : a # b => ret[a].event_id # ret[b].event_id
           /\ \A a, b \in 1..Len(ret) : a < b => ret[a].created_time <= ret[b].created_time
           /\ \A k \in 1..Len(ret) : \A i \in wanted :
                 calendar_records[i].created_time < ret[k].created_time
                 => \E j \in 1..Len(ret) : ret[j] = calendar_records[i]

Count(status) ==
    Cardinality({i \in DOMAIN calendar_records : calendar_records[i].upload_status = status})

RECURSIVE SumOf(_, _)
\* The sum of a nullable column over the rows of a result
SumOf(stats, column) ==
    IF stats = <<>> THEN 0
    ELSE (IF Head(stats)[column] = NULL THEN 0 ELSE Val(Head(stats)[column]))
         + SumOf(Tail(stats), column)

\* C14 as stated: with N pending, M uploaded and K failed records, N = M = K = 0
\* included, get_upload_statistics reports pending_count N, uploaded_count M,
\* failed_count K, total_records N+M+K, and per-person figures that sum to N, M, K.
C14_AsStated ==
    (answer # NoAnswer /\ answer.call = "get_upload_statistics") =>
        LET total == answer.ret.total_stats
            persons == answer.ret.person_stats
        IN /\ total.pending_count = Some(Count("pending"))
           /\ total.uploaded_count = Some(Count("uploaded"))
           /\ total.failed_count = Some(Count("failed"))
           /\ total.total_records = Count("pending") + Count("uploaded") + Count("failed")
           /\ SumOf(persons, "pending") = Count("pending")
           /\ SumOf(persons, "uploaded") = Count("uploaded")
           /\ SumOf(persons, "failed") = Count("failed")

---------------------------------------------------------------------------
(* Properties of the upload log *)

\* The log rows written for event_id e
LogEntries(e) == {i \in DOMAIN upload_logs : upload_logs[i].event_id = e}

\* C12 as stated: when a cycle that submitted at least one chunk ends, the
\* upload log holds an entry for each record the cycle submitted, with the
\* record's event_id and resulting status, and all entries of the cycle carry
\* one batch identifier.
C12_AsStated ==
    (pc[1] = "report" /\ Len(sent[1]) >= 1) =>
        /\ \A k \in 1..Len(sent[1]) : \A j \in 1..Len(sent[1][k]) :
              \E i \in LogEntries(sent[1][k][j].event_id) :
                 upload_logs[i].upload_status =
                    StatusOf(calendar_records, sent[1][k][j].event_id)
        /\ \A i, j \in DOMAIN upload_logs :
              (i > Len(upload_logs) - Len(pending_records[1])
               /\ j > Len(upload_logs) - Len(pending_records[1]))
              => upload_logs[i].batch_id = upload_logs[j].batch_id

---------------------------------------------------------------------------
(* C15, C16: what the ingest phase leaves out of the store *)

\* str.strip() of the title leaves nothing
Blank(summary) == summary \in {"", " "}

\* C15: an event whose status is cancelled never creates a tracked record and
\* never modifies an existing one: the loop iteration that reads it leaves the
\* table calendar_records as it was
C15_CancelledNeverTracked ==
    [][\A file_path \in OneCalendar, event \in FileEvents, t \in Clock :
          (ReadEvent(1, file_path, event, t) /\ Get(event, "status", "") = "cancelled")
             => calendar_records' = calendar_records]_vars

\* A cancelled event was read for an event_id that has an uploaded record of
\* another status, while the other event_id has no record
C15_Witness ==
    /\ pc[1] = "load"
    /\ cur[1] # NoEvent
    /\ Get(cur[1], "status", "") = "cancelled"
    /\ HasEventId(cur[1])
    /\ StatusOf(calendar_records, cur[1].event_id) = "uploaded"
    /\ \E e \in EventIds : StatusOf(calendar_records, e) = "absent"

\* C16: an event whose title is empty or only whitespace never creates a tracked
\* record, whatever the calendar files hold: no row has such a summary
C16_AsStated ==
    \A i \in DOMAIN calendar_records :
        /\ calendar_records[i].summary # NULL
        /\ ~Blank(Val(calendar_records[i].summary))

---------------------------------------------------------------------------
(* C17, C20: failures of the store inside a cycle *)

\* The call of add_or_update_record for the k-th event of the file met a store error
UpsertFailed(k) == k <= Len(cur[1].returns) /\ cur[1].returns[k].error = StoreError

\* C20: a persistence error in the upsert or the marking of one record is returned
\* to the caller as False and does not stop the cycle: once the file loop is over
\* every event whose own upsert met no error has its record, and at the end of
\* the upload phase every pending record was submitted and every record whose
\* own mark met no error carries the status its chunk's answer calls for
C20_StoreErrorIsLocal ==
    cur[1] # NoEvent =>
      /\ \A k \in 1..Len(cur[1].returns) : UpsertFailed(k) => cur[1].returns[k].ret = FALSE
      /\ (FileRead(1) /\ pc[1] # "idle") =>
            \A k \in 1..Len(cur[1].events) :
               ~UpsertFailed(k) => StatusOf(calendar_records, cur[1].events[k].event_id) # "absent"
      /\ pc[1] = "report" =>
            /\ IdsOf(pending_records[1]) =
                  UNION {IdsOfChunk : IdsOfChunk \in
                           {{pending_records[1][j].event_id :
                               j \in {i \in DOMAIN pending_records[1] :
                                         (i - 1) \div batch_size = k - 1}} :
                            k \in 1..Len(sent[1])}}
            /\ counts[1].uploaded + counts[1].failed = Len(pending_records[1])
            /\ \A j \in DOMAIN pending_records[1] :
                  LET e == pending_records[1][j].event_id
                      k == (j - 1) \div batch_size + 1
                  IN e \notin cur[1].failed_marks =>
                        StatusOf(calendar_records, e) =
                           IF Succeeded(outcomes[1][k]) THEN "uploaded" ELSE "failed"

\* A cycle ends in which the upsert of one event and the mark of one record met a
\* store error while another event got its record and another record was
\* submitted and marked uploaded
C20_Witness ==
    /\ pc[1] = "report"
    /\ cur[1] # NoEvent
    /\ \E k \in 1..Len(cur[1].returns) : UpsertFailed(k)
    /\ \E k \in 1..Len(cur[1].returns) :
          /\ ~UpsertFailed(k)
          /\ StatusOf(calendar_records, cur[1].events[k].event_id) = "uploaded"
    /\ cur[1].failed_marks # {}
    /\ \E j \in DOMAIN pending_records[1] :
          /\ pending_records[1][j].event_id \notin cur[1].failed_marks
          /\ StatusOf(calendar_records, pending_records[1][j].event_id) = "uploaded"

\* C17: a cycle never raises and always reports its uploaded and failed counts,
\* whatever store and transport failures it meets: every step that ends a cycle
\* is the step that reports the counts
C17_AsStated ==
    [][(pc[1] # "idle" /\ pc'[1] = "idle") => pc[1] = "report"]_vars

---------------------------------------------------------------------------
(* C18: termination of a cycle *)

\* C18: every started cycle eventually finishes, because a transport call that
\* gets no response is ended by a timeout
C18_AsStated == (pc[1] # "idle") ~> (pc[1] = "idle")

\* What the code gives instead: a started cycle finishes or stays for ever inside
\* a transport call
FinishesOrWaits == (pc[1] # "idle") ~> (pc[1] \in {"idle", "waiting"})

---------------------------------------------------------------------------
(* C11, C19: processes *)

\* C11: at most one sync cycle runs at a time, however the program is started:
\* the two processes are never both in their ingest or upload phase
C11_AsStated == ~(InCycle(1) /\ InCycle(2))

\* Process p has stopped with a chunk the transport accepted and a record of that
\* chunk not yet marked
StoppedUnmarked(p) ==
    /\ proc[p].state = "stopped"
    /\ pc[p] = "mark"
    /\ Succeeded(outcomes[p][Len(outcomes[p])])
    /\ \E j \in (mark_index[p] + 1)..Len(event_ids[p]) :
          StatusOf(calendar_records, event_ids[p][j]) = "pending"

\* C19: a shutdown signal that arrives with a chunk in flight stops the process
\* only after the chunk's records have been marked: no process is stopped while
\* a chunk the transport accepted still has pending records
C19_AsStated == \A p \in Procs : ~StoppedUnmarked(p)

---------------------------------------------------------------------------
(* C26: the columns of the upload status *)

\* C26: every record's upload_status is pending, uploaded or failed, and its
\* upload_time and upload_result are NULL exactly when the status is pending
C26_StatusColumns ==
    \A i \in DOMAIN calendar_records :
        LET r == calendar_records[i]
        IN /\ r.upload_status \in {"pending", "uploaded", "failed"}
           /\ (r.upload_time = NULL) <=> (r.upload_status = "pending")
           /\ (r.upload_result = NULL) <=> (r.upload_status = "pending")

\* One record is uploaded with its time and result set while another, failed
\* before and reset since, is pending with both cleared
C26_Witness ==
    /\ \E i \in DOMAIN calendar_records :
          /\ calendar_records[i].upload_status = "uploaded"
          /\ calendar_records[i].upload_time # NULL
          /\ calendar_records[i].upload_result # NULL
    /\ \E i \in DOMAIN calendar_records :
          /\ trail[calendar_records[i].event_id] = "retry"
          /\ calendar_records[i].upload_status = "pending"
          /\ calendar_records[i].upload_time = NULL

---------------------------------------------------------------------------
(* C23: the life of a tracked record *)

TrackedIds(rows) == {rows[i].event_id : i \in DOMAIN rows}

\* C23: a tracked record is never deleted except by clear_all_records: every
\* step other than clear_all_records keeps every tracked event_id
C23_OnlyClearAllDeletes ==
    [][ClearAll \/ TrackedIds(calendar_records) \subseteq TrackedIds(calendar_records')]_vars

\* Both event_ids are still tracked after one record was uploaded and reset and
\* the other was marked failed
C23_Witness ==
    /\ TrackedIds(calendar_records) = EventIds
    /\ \E e \in EventIds : trail[e] = "reset_uploaded"
    /\ \E e \in EventIds : trail[e] = "failed" /\ StatusOf(calendar_records, e) = "failed"

---------------------------------------------------------------------------
(* C25: time resolution *)

\* C25: a raw time with a timestamp resolves to its seconds times 1000, one with
\* only a date to the millisecond epoch of that date at 00:00:00 UTC whatever the
\* machine's time zone, one with neither to None
C25_AsStated ==
    (answer # NoAnswer /\ answer.call = "_extract_timestamp") =>
        answer.ret =
            IF "timestamp" \in DOMAIN answer.time_data
            THEN Some(answer.time_data["timestamp"] * 1000)
            ELSE IF "date" \in DOMAIN answer.time_data
                 THEN Some(answer.time_data["date"] * 86400 * 1000)
                 ELSE NULL

---------------------------------------------------------------------------
(* C28, C30: the times of a payload *)

\* The pending row the j-th record of the k-th payload of the cycle was built from
SourceRow(k, j) == pending_records[1][(k - 1) * batch_size + j]

\* C28: an event whose start time cannot be resolved never becomes a tracked
\* record, and no payload of a cycle carries a record without a start time
C28_AsStated ==
    /\ \A i \in DOMAIN calendar_records : calendar_records[i].start_time # NULL
    /\ \A k \in DOMAIN sent[1] : \A j \in DOMAIN sent[1][k] :
          sent[1][k][j].fields.StartTime # NULL

\* C30: in every payload of a cycle a record's End Time is its stored end_time
\* whenever one is stored, 0 included, and its start_time only when none is
C30_AsStated ==
    \A k \in DOMAIN sent[1] : \A j \in DOMAIN sent[1][k] :
        sent[1][k][j].fields.EndTime =
            IF SourceRow(k, j).end_time # NULL
            THEN SourceRow(k, j).end_time
            ELSE SourceRow(k, j).start_time

---------------------------------------------------------------------------
(* C22: the mark operations *)

\* Row `after` is row `before` marked: the status, the time and the result are
\* the given ones, updated_time is the time of the call, the rest is kept
MarkedRow(before, after, status, upload_result, t) ==
    after = [before EXCEPT !.upload_status = status,
                           !.upload_time = Some(t),
                           !.upload_result = Some(upload_result),
                           !.updated_time = t]

\* What a mark call has to leave: with no record of event_id it returns False and
\* changes no record and no log entry; otherwise it returns True, marks the record
\* of event_id and changes no other
MarkEffect(event_id, status, upload_result, t) ==
    /\ upload_logs' = upload_logs
    /\ IF Matching(calendar_records, event_id) = {}
       THEN answer'.ret = FALSE /\ calendar_records' = calendar_records
       ELSE /\ answer'.ret = TRUE
            /\ Len(calendar_records') = Len(calendar_records)
            /\ \A i \in DOMAIN calendar_records :
                  IF calendar_records[i].event_id = event_id
                  THEN MarkedRow(calendar_records[i], calendar_records'[i], status,
                                 upload_result, t)
                  ELSE calendar_records'[i] = calendar_records[i]

\* C22: mark_as_uploaded and mark_as_failed return False and change nothing for an
\* event_id without a record; for an existing one they return True and set that
\* record's status, its upload_time to the current time and its upload_result to
\* the given text (after 'FAILED: ' for mark_as_failed), changing no other record
C22_MarkOperations ==
    [][\A event_id \in RecordIds, t \in Clock :
          /\ MarkUploaded(event_id, Text("batch upload succeeded"), t)
                => MarkEffect(event_id, "uploaded", Text("batch upload succeeded"), t)
          /\ MarkFailed(event_id, Text("network error"), t)
                => MarkEffect(event_id, "failed", <<"FAILED: ", "network error">>, t)]_vars

\* A mark call for an event_id without a record has returned False on a store in
\* which an earlier call marked one record failed at the second 1 next to a
\* record that is still pending
C22_Witness ==
    /\ answer # NoAnswer
    /\ answer.call = "mark_as_uploaded"
    /\ answer.ret = FALSE
    /\ \E i \in DOMAIN calendar_records :
          /\ calendar_records[i].upload_status = "failed"
          /\ calendar_records[i].upload_time = Some(1)
          /\ calendar_records[i].upload_result = Some(<<"FAILED: ", "network error">>)
    /\ \E i \in DOMAIN calendar_records : calendar_records[i].upload_status = "pending"

---------------------------------------------------------------------------
(* C24: the upload log *)

\* A write of the batch fails
LogWriteFails(upload_results, fault) ==
    fault # 0 \/ \E k \in DOMAIN upload_results : InsertRaises(upload_results[k])

\* What a log_upload_batch call has to leave
LogEffect(batch_id, upload_results, fault) ==
    /\ calendar_records' = calendar_records
    /\ answer'.ret = ~LogWriteFails(upload_results, fault)
    /\ IF LogWriteFails(upload_results, fault)
       THEN upload_logs' = upload_logs
       ELSE /\ Len(upload_logs') = Len(upload_logs) + Len(upload_results)
            /\ SubSeq(upload_logs', 1, Len(upload_logs)) = upload_logs
            /\ \A k \in DOMAIN upload_results :
                  LET entry == upload_logs'[Len(upload_logs) + k]
                  IN /\ entry.batch_id = batch_id
                     /\ entry.event_id = upload_results[k].event_id
                     /\ entry.upload_status = upload_results[k].status

\* C24: log_upload_batch never fails its caller: when a write of the batch fails
\* it returns False, leaves no entry of that batch in upload_logs and leaves the
\* tracked records as they were; when it succeeds it has appended one entry per
\* result
C24_LogBatchAllOrNothing ==
    [][\A batch_id \in BatchIds, upload_results \in ResultLists, t \in Clock :
          \A fault \in 0..(Len(upload_results) + 1) :
             LogBatch(batch_id, upload_results, fault, t)
                => LogEffect(batch_id, upload_results, fault)]_vars

\* A call has returned False on a log that holds the two entries of an earlier
\* batch, next to a tracked record
C24_Witness ==
    /\ answer # NoAnswer
    /\ answer.call = "log_upload_batch"
    /\ answer.ret = FALSE
    /\ Len(upload_logs) = 2
    /\ upload_logs[1].batch_id = upload_logs[2].batch_id
    /\ calendar_records # <<>>

---------------------------------------------------------------------------
(* C27: the counts a cycle reports *)

\* The records of the cycle's pending list that the store holds with the status
ChangedTo(status) ==
    {j \in DOMAIN pending_records[1] :
        StatusOf(calendar_records, pending_records[1][j].event_id) = status}

\* C27: when a cycle reports its counts, the uploaded count is the number of
\* records whose status the cycle changed to uploaded, the failed count the
\* number it changed to failed, and their sum the number of pending records
\* selected at the start of the upload phase
C27_AsStated ==
    pc[1] = "report" =>
        /\ counts[1].uploaded = Cardinality(ChangedTo("uploaded"))
        /\ counts[1].failed = Cardinality(ChangedTo("failed"))
        /\ counts[1].uploaded + counts[1].failed = Len(pending_records[1])

\* What the code gives instead: the sum is the number of pending records selected,
\* and a count is never below the number of records changed to its status
CountsFollowTransport ==
    pc[1] = "report" =>
        /\ counts[1].uploaded >= Cardinality(ChangedTo("uploaded"))
        /\ counts[1].failed >= Cardinality(ChangedTo("failed"))
        /\ counts[1].uploaded + counts[1].failed = Len(pending_records[1])

---------------------------------------------------------------------------
(* C29: what change detection depends on *)

\* One of the five key fields of the two events differs
KeyFieldsDiffer(event_data, previous) ==
    \E field \in KeyFields :
        Get(event_data, field, KeyDefault(field)) # Get(previous, field, KeyDefault(field))

\* C29: add_or_update_record on an existing event_id reports a change exactly when
\* one of summary, start_time, end_time, status and description differs from the
\* value last ingested; with the five equal, whatever else differs (another event
\* field, person_name, calendar_file), it reports none and leaves the record as
\* it is
C29_FiveFieldsDecide ==
    [][\A event_data \in ChangeEvents, person_name \in Persons,
          calendar_file \in CalendarFiles, t \in Clock :
          (/\ AddOrUpdate(event_data, person_name, calendar_file, t)
           /\ Matching(calendar_records, event_data.event_id) # {})
          => /\ answer'.ret <=> KeyFieldsDiffer(event_data, lastIngest[event_data.event_id])
             /\ ~KeyFieldsDiffer(event_data, lastIngest[event_data.event_id])
                   => calendar_records' = calendar_records]_vars

\* An uploaded record was given again with the same five fields but with one more
\* event field, another person and another calendar file: no change was reported
\* and the record is still uploaded, under the person and file it had
C29_Witness ==
    /\ answer # NoAnswer
    /\ answer.call = "add_or_update_record"
    /\ ~answer.ret
    /\ cur[1] # NoEvent
    /\ cur[1].previous # NoEvent
    /\ cur[1].event_data # cur[1].previous
    /\ ~KeyFieldsDiffer(cur[1].event_data, cur[1].previous)
    /\ "location" \in DOMAIN cur[1].event_data
    /\ \E i \in DOMAIN calendar_records :
          /\ calendar_records[i].event_id = cur[1].event_data.event_id
          /\ calendar_records[i].upload_status = "uploaded"
          /\ calendar_records[i].person_name # cur[1].person_name
          /\ calendar_records[i].calendar_file # cur[1].calendar_file

\* A record was given again with another description only: a change was reported
ChangeReported ==
    /\ answer # NoAnswer
    /\ answer.call = "add_or_update_record"
    /\ answer.ret
    /\ cur[1] # NoEvent
    /\ cur[1].previous # NoEvent
    /\ Get(cur[1].event_data, "description", "") # Get(cur[1].previous, "description", "")
    /\ \A field \in KeyFields \ {"description"} :
          Get(cur[1].event_data, field, KeyDefault(field))
             = Get(cur[1].previous, field, KeyDefault(field))

---------------------------------------------------------------------------
(* C21: two mutating operations on one event_id *)

\* Both processes have made their call and both calls have returned
BothReturned == \A p \in Procs : cur[p] # NoEvent /\ cur[p].done

\* The rows before the first of the two calls
RowsBefore == cur[CHOOSE p \in Procs : cur[p].first].before

\* The rows after call a and then call b, each run without interruption, at any
\* two times in that order
SerialResults(a, b) ==
    {Apply(Apply(RowsBefore, a, ts[1]), b, ts[2]) :
        ts \in {u \in (0..MaxTime) \X (0..MaxTime) : u[1] <= u[2]}}

\* C21: whatever way two mutating store operations of two processes on the same
\* event_id interleave, the record they leave is the one that one of the two
\* serial orders leaves
C21_AsStated ==
    BothReturned =>
        calendar_records \in SerialResults(cur[1].call, cur[2].call)
                               \cup SerialResults(cur[2].call, cur[1].call)

\* What the code gives instead: the same whenever the record exists before the
\* two calls, or the two calls are not both add_or_update_record, or they give
\* the same person or the same five key fields
SerialUnlessRacingInserts ==
    (/\ BothReturned
     /\ \/ RowsBefore # <<>>
        \/ \E p \in Procs : cur[p].call.call # "add_or_update_record"
        \/ cur[1].call.calendar_file = cur[2].call.calendar_file
        \/ GenerateRecordHash(cur[1].call.event_data)
              = GenerateRecordHash(cur[2].call.event_data))
    => calendar_records \in SerialResults(cur[1].call, cur[2].call)
                              \cup SerialResults(cur[2].call, cur[1].call)

---------------------------------------------------------------------------
(* C31: reset_failed_records *)

\* Row i before the call has the status failed
WasFailed(i) == calendar_records[i].upload_status = "failed"

\* C31: reset_failed_records changes only the records whose status is failed:
\* each becomes pending with upload_time and upload_result NULL; it returns the
\* number of those records and leaves every pending or uploaded record and
\* every upload log entry as it was
C31_ResetFailedOnly ==
    [][\A t \in Clock :
          ResetFailedCall(t)
          => /\ Len(calendar_records') = Len(calendar_records)
             /\ \A i \in DOMAIN calendar_records :
                   IF WasFailed(i)
                   THEN /\ calendar_records'[i].upload_status = "pending"
                        /\ calendar_records'[i].upload_time = NULL
                        /\ calendar_records'[i].upload_result = NULL
                        /\ calendar_records'[i].event_id = calendar_records[i].event_id
                        /\ calendar_records'[i].summary = calendar_records[i].summary
                        /\ calendar_records'[i].person_name = calendar_records[i].person_name
                   ELSE calendar_records'[i] = calendar_records[i]
             /\ answer'.reset_count
                   = Cardinality({i \in DOMAIN calendar_records : WasFailed(i)})
             /\ upload_logs' = upload_logs]_vars

\* reset_failed_records has just reset a record, next to a record that is uploaded
\* and with entries in the upload log
C31_Witness ==
    /\ answer # NoAnswer
    /\ answer.call = "reset_failed_records"
    /\ answer.reset_count >= 1
    /\ upload_logs # <<>>
    /\ \E i \in DOMAIN calendar_records :
          /\ calendar_records[i].upload_status = "uploaded"
          /\ calendar_records[i].upload_time # NULL
    /\ \E i \in DOMAIN calendar_records :
          /\ calendar_records[i].upload_status = "pending"
          /\ calendar_records[i].updated_time = now
    /\ \A i \in DOMAIN calendar_records : calendar_records[i].upload_status # "failed"

---------------------------------------------------------------------------
(* C32: a second cycle over the same source data *)

\* The second cycle runs and every upload of the first one succeeded
SecondAfterSuccess == cur[1] # NoEvent /\ cur[1].round = 2 /\ cur[1].settled

\* The second cycle has written no record, selected no pending record and made
\* no transport call
NothingToDo ==
    /\ cur[1].written = 0
    /\ pc[1] \in {"load", "idle"}
    /\ pending_records[1] = <<>>
    /\ sent[1] = <<>>

\* C32: a cycle that ingests the same source data as the cycle before it, all of
\* whose uploads succeeded, inserts or updates no record, selects no pending
\* record and makes no transport call, whatever the source data, the same
\* event_id in two calendars included
C32_AsStated == SecondAfterSuccess => NothingToDo

\* Two events of the source data have the same event_id and different key fields
Conflicting(source) ==
    \E i, j \in DOMAIN source :
        /\ source[i].event.event_id = source[j].event.event_id
        /\ Get(source[i].event, "status", "") # "cancelled"
        /\ Get(source[j].event, "status", "") # "cancelled"
        /\ GenerateRecordHash(source[i].event) # GenerateRecordHash(source[j].event)

\* What the code gives instead: the same for source data in which no event_id
\* comes with two different contents
QuietWithoutConflict ==
    (SecondAfterSuccess /\ ~Conflicting(cur[1].source)) => NothingToDo

\* The second cycle is over, the source data hold one event_id in two calendars
\* with the same content, and nothing was done
QuietSecondCycle ==
    /\ SecondAfterSuccess
    /\ SourceRead
    /\ pc[1] = "idle"
    /\ NothingToDo
    /\ calendar_records # <<>>
    /\ \E i, j \in DOMAIN cur[1].source :
          /\ cur[1].source[i].file_path # cur[1].source[j].file_path
          /\ cur[1].source[i].event = cur[1].source[j].event

---------------------------------------------------------------------------
(* C33: what an uploaded record holds *)

\* Record j of chunk k of the running cycle was sent in a transport call that
\* succeeded and has been marked since
SentAndMarked(k, j) ==
    /\ Succeeded(outcomes[1][k])
    /\ \/ k < Len(outcomes[1])
       \/ pc[1] # "mark"
       \/ j <= mark_index[1]

\* C33: a record with the status uploaded holds the summary, start_time,
\* end_time and fingerprint that the last successful transport call which
\* included it carried, also when another process ingests during the upload
\* phase
C33_AsStated ==
    \A k \in DOMAIN sent[1] : \A j \in DOMAIN sent[1][k] :
        (/\ SentAndMarked(k, j)
         /\ StatusOf(calendar_records, sent[1][k][j].event_id) = "uploaded")
        => /\ UploadRecord(RowOf(calendar_records, sent[1][k][j].event_id)) = sent[1][k][j]
           /\ RowOf(calendar_records, sent[1][k][j].event_id).record_hash
                 = SourceRow(k, j).record_hash

---------------------------------------------------------------------------
(* C34: the person of a record *)

\* C34: the person_name of a tracked record is the one it was inserted with: no
\* operation on the record changes it, an add_or_update_record call for its
\* event_id with another person_name included, whether the fingerprint changed
\* or not (clear_all_records deletes the record)
C34_PersonFixed ==
    [][ClearAll \/
       \A i \in DOMAIN calendar_records : \A j \in DOMAIN calendar_records' :
           calendar_records'[j].event_id = calendar_records[i].event_id
           => calendar_records'[j].person_name = calendar_records[i].person_name]_vars

\* A record inserted for alice has been given again from bob's calendar file
\* twice, once with the stored fingerprint and once with another: it has bob's
\* file and is still alice's
C34_Witness ==
    /\ BothReturned
    /\ RowsBefore # <<>>
    /\ \A p \in Procs :
          /\ cur[p].call.call = "add_or_update_record"
          /\ PersonName(cur[p].call.calendar_file) = "bob"
    /\ \E p \in Procs :
          GenerateRecordHash(cur[p].call.event_data) = RowsBefore[1].record_hash
    /\ \E p \in Procs :
          GenerateRecordHash(cur[p].call.event_data) # RowsBefore[1].record_hash
    /\ calendar_records[1].person_name = "alice"
    /\ PersonName(calendar_records[1].calendar_file) = "bob"

---------------------------------------------------------------------------
(* C35: a cycle stopped by a gate *)

\* A non-forced cycle on a weekend, a token acquisition that fails, or a fetch of
\* the calendar data that fails
GateFails(force_execute, skip_auth, weekday, token_ok, fetch_ok) ==
    \/ ~force_execute /\ weekday \in {5, 6}
    \/ ~skip_auth /\ ~token_ok
    \/ ~fetch_ok

\* C35: a cycle touches the store only after its gates pass: when a non-forced
\* cycle runs on a weekend, when the token acquisition fails or when the fetch of
\* the calendar data fails, execute_main_task returns with every tracked record
\* and every log entry unchanged and without a transport call
C35_GatesBeforeStore ==
    [][\A force_execute \in BOOLEAN, skip_auth \in BOOLEAN, weekday \in Weekdays,
          token_ok \in BOOLEAN, fetch_ok \in BOOLEAN :
          (/\ BeginTask(1, force_execute, skip_auth, weekday, token_ok, fetch_ok)
           /\ GateFails(force_execute, skip_auth, weekday, token_ok, fetch_ok))
          => /\ pc'[1] = "idle"
             /\ calendar_records' = calendar_records
             /\ upload_logs' = upload_logs
             /\ sent'[1] = <<>>]_vars

\* A cycle that met the weekend gate over a store that holds a record and a log
\* entry: it has returned
C35_Witness ==
    /\ cur[1] # NoEvent
    /\ "gate" \in DOMAIN cur[1]
    /\ cur[1].gate = "weekend"
    /\ pc[1] = "idle"
    /\ sent[1] = <<>>
    /\ calendar_records # <<>>
    /\ upload_logs # <<>>

---------------------------------------------------------------------------
(* C36: the pid file of a running scheduler *)

\* Process p is in the main loop of run and has not been told to stop
InMainLoop(p) == Handles(p) /\ ~proc[p].stop_event

\* C36: while a scheduler process is in its main loop the pid file exists and
\* holds the pid of that process; when a new scheduler replaces an old one, the
\* shutdown of the old process neither removes nor overwrites the pid file the
\* new one wrote
C36_AsStated == \A p \in Procs : InMainLoop(p) => pid_file = Some(p)

\* What the code gives instead: the same as long as every process was started
\* with scheduler.py on its command line
PidFileOfSchedulerPy ==
    (\A q \in Procs : proc[q].cmdline # "run.py")
    => \A p \in Procs : InMainLoop(p) => pid_file = Some(p)

\* The old scheduler, left running, has shut down after the new one started: the
\* new one is in its main loop and there is no pid file
PidFileRemovedByOld ==
    \E p \in Procs :
        /\ InMainLoop(p)
        /\ pid_file = NULL
        /\ \E q \in Procs \ {p} : proc[q].state = "stopped" /\ proc[q].mode = "run"

---------------------------------------------------------------------------
(* C37: the token cache *)

\* The request meets an exception, a status other than 200, a body that is no
\* JSON or an error code
RequestFails(response) ==
    \/ "raises" \in DOMAIN response
    \/ "json_raises" \in DOMAIN response
    \/ response.status_code # 200
    \/ Get(response.body, "code", -1) # 0

\* C37: get_tenant_access_token returns the cached token without a network call
\* only at times strictly before the time the token was obtained plus
\* TOKEN_EXPIRE_TIME minus 300 seconds; at or after that time it requests a new
\* token; a request that fails returns None and leaves the cached token and its
\* expiry as they were
C37_TokenCache ==
    [][\A t \in TokenTimes, response \in TokenResponses :
          TokenCall(t, response)
          => /\ ~answer'.requested
                   => /\ HasCachedToken(cur[1])
                      /\ t < cur[1].obtained + TOKEN_EXPIRE_TIME - 300
                      /\ answer'.token = cur[1].cached_token
                      /\ cur'[1] = cur[1]
             /\ t >= cur[1].obtained + TOKEN_EXPIRE_TIME - 300 => answer'.requested
             /\ (answer'.requested /\ RequestFails(response))
                   => /\ answer'.token = NULL
                      /\ cur'[1].cached_token = cur[1].cached_token
                      /\ cur'[1].token_expire_time = cur[1].token_expire_time]_vars

\* The token obtained at time 0 was returned from the cache one second before its
\* expiry, and at the expiry a request was made that failed: the cache is as it was
C37_Witness ==
    /\ now = 6900
    /\ answer # NoAnswer
    /\ answer.requested
    /\ answer.token = NULL
    /\ cur[1].cached_token = Some("t1")
    /\ cur[1].obtained = 0
    /\ cur[1].token_expire_time = 6900

\* The token obtained at time 0 has been returned from the cache at time 6899
CacheHitBeforeExpiry ==
    /\ now = 6899
    /\ answer # NoAnswer
    /\ ~answer.requested
    /\ answer.token = Some("t1")
    /\ cur[1].obtained = 0

====
